---- MODULE Spec2Model ----
(***************************************************************************)
(* Model of the link orchestrator of vscode-linkify                        *)
(* (src/extension/utilities/npm-link.ts).                                  *)
(*                                                                         *)
(* Text is kept as TLA+ strings; the JavaScript string operations the code *)
(* relies on (toLowerCase, includes, trim, template interpolation) are     *)
(* computed character by character.  A JavaScript value is a record        *)
(* [kind, message]: an Error with its message, a string with its text, or  *)
(* null / undefined.                                                       *)
(***************************************************************************)
EXTENDS Integers, Sequences, FiniteSets, TLC

VARIABLES
    pc,              \* position of the running npmLink invocation
    req,             \* the LinkOptions of the running invocation
    packageManager,  \* the manager name detectPackageManager yielded
    cmds,            \* cp.exec calls of the running invocation, in order
    detectCalls,     \* detect() calls of the running invocation, in order
    execs,           \* outcomes of the completed cp.exec calls, in order
    detections,      \* outcomes of the completed detect() calls, in order
    validated,       \* "pending", "passed" or "failed": validatePackage
    logs,            \* logger calls of the running invocation, in order
    result,          \* the LinkResult npmLink returned
    rejection,       \* the value npmLink rejected with
    calls,           \* number of npmLink invocations started so far
    stats,           \* outcomes of the completed fs.stat calls, in order
    reads,           \* outcomes of the completed fs.readFile calls, in order
    other,           \* the npmLink invocation that is not running right now
    sink,            \* "ok" or "broken": whether logger calls raise
    cmdIn,           \* arguments handed to the command selector
    cmdOut,          \* outcome of the command selector on cmdIn
    stored,          \* globalState value under the key linkedPackages
    lastSaved,       \* per package name, the record saved last (if any)
    handler,         \* the running linkify.linkPackage command handler
    simple,          \* the three-argument npmLink on the same outcomes
    channel,         \* the logger: output channels, lines, notifications
    hover,           \* the last getDependencyAtPosition call and its result
    pending          \* globalState.update promises not yet resolved

vars == <<pc, req, packageManager, cmds, detectCalls, execs, detections,
          validated, logs, result, rejection, calls, stats, reads, other,
          sink, cmdIn, cmdOut, stored, lastSaved, handler, simple, channel,
          hover, pending>>

\* the locals of one npmLink invocation and what it has done so far
invocationVars == <<pc, req, packageManager, cmds, detectCalls, execs,
                    detections, validated, logs, result, rejection, stats,
                    reads>>

linkVars == <<invocationVars, calls, other, sink>>

cmdVars == <<cmdIn, cmdOut>>

storeVars == <<stored, lastSaved>>

callerVars == <<handler, simple>>

serviceVars == <<channel, hover, pending>>

\* what no step of npmLink touches
otherVars == <<other, sink, cmdVars, storeVars, callerVars, serviceVars>>

(***************************************************************************)
(* Bounds                                                                  *)
(***************************************************************************)
MaxCalls == 2

(***************************************************************************)
(* JavaScript values                                                       *)
(***************************************************************************)
Err(m) == [kind |-> "Error", message |-> m]
Str(s) == [kind |-> "string", message |-> s]
UNDEFINED == [kind |-> "undefined", message |-> ""]
NULL == [kind |-> "null", message |-> ""]

\* error instanceof Error
InstanceOfError(v) == v.kind = "Error"

\* String(error) for a value that is not an Error
StringOf(v) ==
    CASE v.kind = "string" -> v.message
      [] v.kind = "null" -> "null"
      [] v.kind = "undefined" -> "undefined"
      [] OTHER -> "Error: " \o v.message

\* error instanceof Error ? error.message : String(error)
ErrorText(v) == IF InstanceOfError(v) THEN v.message ELSE StringOf(v)

\* error instanceof Error ? error : new Error(String(error))
AsError(v) == IF InstanceOfError(v) THEN v ELSE Err(StringOf(v))

\* `${value.message}` for a value cast to Error: a string has no message
\* property, so the template renders "undefined"
MessageProperty(v) == IF InstanceOfError(v) THEN v.message ELSE "undefined"

(***************************************************************************)
(* JavaScript string operations                                            *)
(***************************************************************************)
UpperLetters == "ABCDEFGHIJKLMNOPQRSTUVWXYZ"
LowerLetters == "abcdefghijklmnopqrstuvwxyz"

LowerChar(c) ==
    IF \E i \in 1..Len(UpperLetters) : SubSeq(UpperLetters, i, i) = c
    THEN LET i == CHOOSE j \in 1..Len(UpperLetters) :
                      SubSeq(UpperLetters, j, j) = c
         IN  SubSeq(LowerLetters, i, i)
    ELSE c

\* every character lowered; the text is split in halves to keep the
\* recursion shallow
RECURSIVE toLowerCase(_)
toLowerCase(s) ==
    IF Len(s) = 0 THEN ""
    ELSE IF Len(s) = 1 THEN LowerChar(s)
    ELSE LET half == Len(s) \div 2
         IN  toLowerCase(SubSeq(s, 1, half))
             \o toLowerCase(SubSeq(s, half + 1, Len(s)))

includes(s, sub) ==
    \E i \in 1..(Len(s) - Len(sub) + 1) : SubSeq(s, i, i + Len(sub) - 1) = sub

IsWhiteSpace(c) == c \in {" ", "\n", "\t", "\r"}

RECURSIVE trimStart(_)
trimStart(s) ==
    IF Len(s) > 0 /\ IsWhiteSpace(SubSeq(s, 1, 1))
    THEN trimStart(SubSeq(s, 2, Len(s)))
    ELSE s

RECURSIVE trimEnd(_)
trimEnd(s) ==
    IF Len(s) > 0 /\ IsWhiteSpace(SubSeq(s, Len(s), Len(s)))
    THEN trimEnd(SubSeq(s, 1, Len(s) - 1))
    ELSE s

trim(s) == trimEnd(trimStart(s))

(***************************************************************************)
(* Command selection                                                       *)
(***************************************************************************)
\* normalizeDependencyType that compares the spelling as given
normalizeDependencyTypeCaseSensitive(dependencyType) ==
    LET given == IF dependencyType = UNDEFINED THEN "prod"
                 ELSE dependencyType.message
    IN  CASE given \in {"optionaldependencies", "optional"} -> "optional"
          [] given \in {"peerdependencies", "peer"} -> "peer"
          [] given \in {"devdependencies", "dev"} -> "dev"
          [] OTHER -> "prod"

\* dependencyType: string = 'prod' -- the default applies to undefined only
normalizeDependencyType(dependencyType) ==
    LET given == IF dependencyType = UNDEFINED THEN "prod"
                 ELSE dependencyType.message
        lowerType == toLowerCase(given)
    IN  CASE lowerType \in {"optionaldependencies", "optional"} -> "optional"
          [] lowerType \in {"peerdependencies", "peer"} -> "peer"
          [] lowerType \in {"devdependencies", "dev"} -> "dev"
          [] OTHER -> "prod"

\* the command table with an --optional flag for bun
packageManagerCommandsBunOptional ==
    [npm  |-> [optional |-> "npm install --save-optional ",
               peer     |-> "npm install --save-peer ",
               dev      |-> "npm install --save-dev ",
               prod     |-> "npm install --save "],
     pnpm |-> [optional |-> "pnpm add --save-optional ",
               peer     |-> "pnpm add --save-peer ",
               dev      |-> "pnpm add --save-dev ",
               prod     |-> "pnpm add --save "],
     bun  |-> [peer     |-> "bun install --peer ",
               dev      |-> "bun install --dev ",
               optional |-> "bun install --optional ",
               prod     |-> "bun install "],
     yarn |-> [optional |-> "yarn add --optional ",
               peer     |-> "yarn add --peer ",
               dev      |-> "yarn add --dev ",
               prod     |-> "yarn add "]]

\* the text each command generator puts in front of the package path
packageManagerCommands ==
    [npm  |-> [optional |-> "npm install --save-optional ",
               peer     |-> "npm install --save-peer ",
               dev      |-> "npm install --save-dev ",
               prod     |-> "npm install --save "],
     pnpm |-> [optional |-> "pnpm add --save-optional ",
               peer     |-> "pnpm add --save-peer ",
               dev      |-> "pnpm add --save-dev ",
               prod     |-> "pnpm add --save "],
     bun  |-> [peer     |-> "bun install --peer ",
               dev      |-> "bun install --dev ",
               optional |-> "bun install ",
               prod     |-> "bun install "],
     yarn |-> [optional |-> "yarn add --optional ",
               peer     |-> "yarn add --peer ",
               dev      |-> "yarn add --dev ",
               prod     |-> "yarn add "]]

\* property names every object literal inherits from Object.prototype
ObjectPrototypeKeys ==
    {"constructor", "toString", "toLocaleString", "valueOf", "hasOwnProperty",
     "isPrototypeOf", "propertyIsEnumerable", "__proto__",
     "__defineGetter__", "__defineSetter__", "__lookupGetter__",
     "__lookupSetter__"}

\* manager in packageManagerCommands: own and inherited properties
InPackageManagerCommands(manager) ==
    manager \in (DOMAIN packageManagerCommands) \cup ObjectPrototypeKeys

\* the outcome of a call: the value it returned or the value it threw
Return(v) == [threw |-> FALSE, val |-> v]
Throw(v) == [threw |-> TRUE, val |-> v]

getAddCommand(manager0, packagePath, dependencyType) ==
    LET normalizedType == normalizeDependencyType(dependencyType)
        manager == IF ~InPackageManagerCommands(manager0) THEN "npm"
                   ELSE manager0
    IN  IF manager \in DOMAIN packageManagerCommands
        THEN Return(Str(packageManagerCommands[manager][normalizedType]
                        \o packagePath))
        ELSE \* an inherited property has no generator under normalizedType
             Throw(Err("packageManagerCommands[manager][normalizedType] is not a function"))

\* createLinkCommand that has no case for bun
createLinkCommandNoBun(manager, packagePath) ==
    CASE manager = "yarn" -> "yarn link " \o packagePath
      [] manager = "pnpm" -> "pnpm link " \o packagePath
      [] OTHER -> "npm link " \o packagePath

createLinkCommand(manager, packagePath) ==
    CASE manager = "yarn" -> "yarn link " \o packagePath
      [] manager = "pnpm" -> "pnpm link " \o packagePath
      [] manager = "bun" -> "bun link " \o packagePath
      [] OTHER -> "npm link " \o packagePath

\* isWorkspaceError that takes every error for a workspace error
isWorkspaceErrorAlways(error) == TRUE

\* isWorkspaceError that does not lower the message before searching it
isWorkspaceErrorCaseSensitive(error) ==
    LET errorMessage == error.message
    IN  \/ includes(errorMessage, "workspace")
        \/ includes(errorMessage, "err_pnpm_workspace_pkg_not_found")

isWorkspaceError(error) ==
    LET errorMessage == toLowerCase(error.message)
    IN  \/ includes(errorMessage, "workspace")
        \/ includes(errorMessage, "err_pnpm_workspace_pkg_not_found")

(***************************************************************************)
(* Inputs of an invocation and outcomes of the external calls              *)
(***************************************************************************)
PackagePaths == {"/pkg"}
ProjectPaths == {"/proj"}
PackageNames == {"foo"}
DependencyTypeOptions ==
    {UNDEFINED, Str("dev"), Str("peerDependencies"), Str("OPTIONAL"),
     Str("dependencies")}

LinkOptions ==
    [packagePath : PackagePaths, projectPath : ProjectPaths,
     packageName : PackageNames, dependencyType : DependencyTypeOptions]

\* fs.stat: a Stats object, or a rejection with an Error or another value
StatOutcomes ==
    {[threw |-> FALSE, val |-> UNDEFINED, isDirectory |-> TRUE,
      isFile |-> FALSE],
     [threw |-> FALSE, val |-> UNDEFINED, isDirectory |-> FALSE,
      isFile |-> TRUE],
     [threw |-> TRUE, val |-> Err("ENOENT: no such file or directory"),
      isDirectory |-> FALSE, isFile |-> FALSE],
     [threw |-> TRUE, val |-> Str("File not found"),
      isDirectory |-> FALSE, isFile |-> FALSE]}

\* fs.readFile followed by JSON.parse: the manifest does not parse, parses
\* to null, or parses to an object whose name is absent or a string
ManifestNames == {UNDEFINED, Str(""), Str("foo"), Str("bar")}

ReadOutcomes ==
    {[threw |-> TRUE, val |-> Err("EACCES: permission denied"),
      json |-> "none", name |-> UNDEFINED],
     [threw |-> FALSE, val |-> UNDEFINED, json |-> "invalid",
      name |-> UNDEFINED],
     [threw |-> FALSE, val |-> UNDEFINED, json |-> "null",
      name |-> UNDEFINED]}
    \cup {[threw |-> FALSE, val |-> UNDEFINED, json |-> "object", name |-> n] :
            n \in ManifestNames}

\* detect(): null, an object whose name is null or a manager name, or a
\* rejection with an Error or another value
DetectorNames == {"npm", "yarn", "pnpm", "bun", "deno", "unknown-manager"}

DetectOutcomes ==
    {[threw |-> TRUE, val |-> Err("Detection failed"), isNull |-> FALSE,
      name |-> NULL],
     [threw |-> TRUE, val |-> Str("String error"), isNull |-> FALSE,
      name |-> NULL],
     [threw |-> FALSE, val |-> UNDEFINED, isNull |-> TRUE, name |-> NULL],
     [threw |-> FALSE, val |-> UNDEFINED, isNull |-> FALSE, name |-> NULL]}
    \cup {[threw |-> FALSE, val |-> UNDEFINED, isNull |-> FALSE,
           name |-> Str(n)] : n \in DetectorNames}

\* cp.exec: the callback's (error, stdout, stderr), or a synchronous throw
SuccessStdouts == {"ok", " linked\n"}
FailureErrors ==
    {Err("Command failed: npm link /home/me/workspace/pkg"),
     Str("Command failed")}
FailureStdouts == {"", "Scope: all 2 workspace projects\n"}
FailureStderrs ==
    {"", "Some other error", "stderr output",
     "ERR_PNPM_WORKSPACE_PKG_NOT_FOUND",
     "cannot find module with workspace: dependency",
     "No WorkSpace found"}

ExecOutcomes ==
    {[threw |-> FALSE, val |-> UNDEFINED, error |-> NULL, stdout |-> o,
      stderr |-> ""] : o \in SuccessStdouts}
    \cup {[threw |-> FALSE, val |-> UNDEFINED, error |-> e, stdout |-> o,
           stderr |-> s] :
            e \in FailureErrors, o \in FailureStdouts, s \in FailureStderrs}
    \cup {[threw |-> TRUE, val |-> Err("spawn E2BIG"), error |-> NULL,
           stdout |-> "", stderr |-> ""]}

(***************************************************************************)
(* executeCommand                                                          *)
(***************************************************************************)
LogEntry(level, message) == [level |-> level, message |-> message]

\* if (error): null, undefined and the empty string are falsy
Truthy(v) == ~(v.kind \in {"null", "undefined"}) /\ ~(v = Str(""))

\* the logger.info call made before cp.exec is called
executeCommandStartLogs(command, cwd) ==
    <<LogEntry("info", "Executing command: \"" \o command
                       \o "\" in directory: " \o cwd)>>

\* the logger calls made in the cp.exec callback
executeCommandLogs(o) ==
    IF o.threw THEN <<>>
    ELSE (IF o.stdout # ""
          THEN <<LogEntry("info", "Error executing command stdout: "
                                  \o trim(o.stdout))>>
          ELSE <<>>)
         \o (IF o.stderr # ""
             THEN <<LogEntry("error", "Error executing command stderr: "
                                      \o trim(o.stderr))>>
             ELSE <<>>)
         \o (IF Truthy(o.error)
             THEN <<LogEntry("error", "Command execution error: "
                                      \o MessageProperty(o.error))>>
             ELSE <<>>)

\* executeCommand that leaves stdout out of the error message
executeCommandStderrOnly(o) ==
    IF o.threw THEN Throw(o.val)
    ELSE IF Truthy(o.error)
         THEN Throw(Err("Command execution failed: " \o o.stderr))
         ELSE Return(Str(trim(o.stdout)))

\* executeCommand that resolves with stdout as captured
executeCommandUntrimmed(o) ==
    IF o.threw THEN Throw(o.val)
    ELSE IF Truthy(o.error)
         THEN Throw(Err("Command execution failed: " \o o.stdout \o "\n"
                        \o o.stderr))
         ELSE Return(Str(o.stdout))

\* how the promise executeCommand returned settles
executeCommand(o) ==
    IF o.threw THEN Throw(o.val)
    ELSE IF Truthy(o.error)
         THEN Throw(Err("Command execution failed: " \o o.stdout \o "\n"
                        \o o.stderr))
         ELSE Return(Str(trim(o.stdout)))

(***************************************************************************)
(* npmLink                                                                 *)
(***************************************************************************)
NoResult == [success |-> FALSE, message |-> "", error |-> UNDEFINED]
NoRequest ==
    [packagePath |-> "", projectPath |-> "", packageName |-> "",
     dependencyType |-> UNDEFINED]
NoCmdIn == [manager |-> "", packagePath |-> "", dependencyType |-> UNDEFINED]
NoCmdOut == [fn |-> "", out |-> Return(UNDEFINED)]

\* let { dependencyType = 'prod', ... } = options
dependencyTypeOf(options) ==
    IF options.dependencyType = UNDEFINED THEN Str("prod")
    ELSE options.dependencyType

\* path.join(packagePath, 'package.json') for a normalized packagePath
pathJoin(dir, file) ==
    IF Len(dir) > 0 /\ SubSeq(dir, Len(dir), Len(dir)) = "/"
    THEN dir \o file
    ELSE dir \o "/" \o file

Returned(r) ==
    /\ pc' = "returned"
    /\ result' = r
    /\ rejection' = UNDEFINED

\* npmLink without its catch clause: the error leaves npmLink
npmLinkCatchRethrow(error) ==
    /\ pc' = "rejected"
    /\ result' = NoResult
    /\ rejection' = error

\* the catch clause of npmLink; reading .message of null or undefined throws
npmLinkCatch(error) ==
    IF error.kind \in {"null", "undefined"}
    THEN /\ pc' = "rejected"
         /\ result' = NoResult
         /\ rejection' = Err("Cannot read properties of " \o error.kind
                             \o " (reading 'message')")
    ELSE Returned([message |-> "Failed to create link: "
                               \o MessageProperty(error),
                   error |-> error,
                   success |-> FALSE])

\* the catch clause of validatePackage
validatePackageCatchNoPrefix(error) ==
    [message |-> ErrorText(error),
     error |-> AsError(error),
     success |-> FALSE]

validatePackageCatch(error) ==
    [message |-> "Failed to create link: " \o ErrorText(error),
     error |-> AsError(error),
     success |-> FALSE]

\* an invocation slot in which npmLink has not been called
IdleInvocation ==
    [pc |-> "idle", req |-> NoRequest, packageManager |-> "", cmds |-> <<>>,
     detectCalls |-> <<>>, execs |-> <<>>, detections |-> <<>>,
     validated |-> "pending", logs |-> <<>>, result |-> NoResult,
     rejection |-> UNDEFINED, stats |-> <<>>, reads |-> <<>>]

LinkInit ==
    /\ pc = "idle"
    /\ req = NoRequest
    /\ packageManager = ""
    /\ cmds = <<>>
    /\ detectCalls = <<>>
    /\ execs = <<>>
    /\ detections = <<>>
    /\ validated = "pending"
    /\ logs = <<>>
    /\ result = NoResult
    /\ rejection = UNDEFINED
    /\ calls = 0
    /\ stats = <<>>
    /\ reads = <<>>
    /\ other = IdleInvocation
    /\ sink = "ok"

\* npmLink is called: validatePackage runs up to its first fs.stat
npmLink(options) ==
    /\ pc \in {"idle", "returned", "rejected"}
    /\ calls < MaxCalls
    /\ calls' = calls + 1
    /\ req' = options
    /\ pc' = "statPackagePath"
    /\ stats' = <<>>
    /\ reads' = <<>>
    /\ UNCHANGED packageManager
    /\ cmds' = <<>>
    /\ detectCalls' = <<>>
    /\ execs' = <<>>
    /\ detections' = <<>>
    /\ validated' = "pending"
    /\ logs' = <<>>
    /\ result' = NoResult
    /\ rejection' = UNDEFINED
    /\ UNCHANGED otherVars

\* npmLink that does not return the failing validation result but goes on
\* to detect the package manager
ValidationFailsIgnored(r) ==
    /\ validated' = "failed"
    /\ detectCalls' = Append(detectCalls, req.projectPath)
    /\ pc' = "detect"
    /\ UNCHANGED <<req, packageManager, cmds, execs, detections, logs, result,
                   rejection, calls, otherVars>>

\* validatePackage returns a failing LinkResult, which npmLink returns
ValidationFails(r) ==
    /\ validated' = "failed"
    /\ Returned(r)
    /\ UNCHANGED <<req, packageManager, cmds, detectCalls, execs, detections,
                   logs, calls, otherVars>>

\* fs.stat(packagePath) settles
validatePackageStatPath(o) ==
    /\ pc = "statPackagePath"
    /\ stats' = Append(stats, o)
    /\ UNCHANGED reads
    /\ IF o.threw THEN ValidationFails(validatePackageCatch(o.val))
       ELSE IF ~o.isDirectory
       THEN ValidationFails(
                [message |-> "Package directory does not exist: "
                             \o req.packagePath,
                 error |-> UNDEFINED,
                 success |-> FALSE])
       ELSE /\ pc' = "statPackageJson"
            /\ UNCHANGED <<req, packageManager, cmds, detectCalls, execs,
                           detections, validated, logs, result, rejection,
                           calls, otherVars>>

\* fs.stat(packageJsonPath) settles
validatePackageStatJson(o) ==
    /\ pc = "statPackageJson"
    /\ stats' = Append(stats, o)
    /\ UNCHANGED reads
    /\ IF o.threw THEN ValidationFails(validatePackageCatch(o.val))
       ELSE IF ~o.isFile
       THEN ValidationFails(
                [message |-> "No package.json found in: " \o req.packagePath,
                 error |-> UNDEFINED,
                 success |-> FALSE])
       ELSE /\ pc' = "readPackageJson"
            /\ UNCHANGED <<req, packageManager, cmds, detectCalls, execs,
                           detections, validated, logs, result, rejection,
                           calls, otherVars>>

\* validatePackage that does not compare the manifest name
validatePackageManifestNoNameCheck(o, packagePath, packageName) ==
    LET packageJsonPath == pathJoin(packagePath, "package.json")
    IN  CASE o.threw -> validatePackageCatch(o.val)
          [] o.json = "invalid" ->
                validatePackageCatch(
                    Err("Unexpected token in JSON at position 0"))
          [] o.json = "null" ->
                validatePackageCatch(
                    Err("Cannot read properties of null (reading 'name')"))
          [] ~Truthy(o.name) ->
                [message |-> "No package name found in package.json: "
                             \o packageJsonPath,
                 error |-> UNDEFINED,
                 success |-> FALSE]
          [] OTHER -> NoResult

\* validatePackage that attaches an Error to the name mismatch
validatePackageManifestWithError(o, packagePath, packageName) ==
    LET packageJsonPath == pathJoin(packagePath, "package.json")
    IN  CASE o.threw -> validatePackageCatch(o.val)
          [] o.json = "invalid" ->
                validatePackageCatch(
                    Err("Unexpected token in JSON at position 0"))
          [] o.json = "null" ->
                validatePackageCatch(
                    Err("Cannot read properties of null (reading 'name')"))
          [] ~Truthy(o.name) ->
                [message |-> "No package name found in package.json: "
                             \o packageJsonPath,
                 error |-> UNDEFINED,
                 success |-> FALSE]
          [] o.name.message # packageName ->
                [message |-> "Package name in package.json ("
                             \o o.name.message
                             \o ") does not match provided package name ("
                             \o packageName \o ")",
                 error |-> Err("Package name mismatch"),
                 success |-> FALSE]
          [] OTHER -> NoResult

\* what JSON.parse and the two name checks make of the manifest: the failing
\* LinkResult, or NoResult when validatePackage returns null
validatePackageManifest(o, packagePath, packageName) ==
    LET packageJsonPath == pathJoin(packagePath, "package.json")
    IN  CASE o.threw -> validatePackageCatch(o.val)
          [] o.json = "invalid" ->
                validatePackageCatch(
                    Err("Unexpected token in JSON at position 0"))
          [] o.json = "null" ->
                validatePackageCatch(
                    Err("Cannot read properties of null (reading 'name')"))
          [] ~Truthy(o.name) ->
                [message |-> "No package name found in package.json: "
                             \o packageJsonPath,
                 error |-> UNDEFINED,
                 success |-> FALSE]
          [] o.name.message # packageName ->
                [message |-> "Package name in package.json ("
                             \o o.name.message
                             \o ") does not match provided package name ("
                             \o packageName \o ")",
                 error |-> UNDEFINED,
                 success |-> FALSE]
          [] OTHER -> NoResult

\* fs.readFile settles; when validation passes npmLink calls detect()
validatePackageReadJson(o) ==
    /\ pc = "readPackageJson"
    /\ reads' = Append(reads, o)
    /\ UNCHANGED stats
    /\ LET r == validatePackageManifest(o, req.packagePath, req.packageName)
       IN  IF r # NoResult THEN ValidationFails(r)
           ELSE /\ validated' = "passed"
                /\ detectCalls' = Append(detectCalls, req.projectPath)
                /\ pc' = "detect"
                /\ UNCHANGED <<req, packageManager, cmds, execs, detections,
                               logs, result, rejection, calls, otherVars>>

\* detectPackageManager that defaults to yarn
detectPackageManagerNameYarn(o) ==
    IF o.threw THEN "yarn"
    ELSE IF o.isNull THEN "yarn"
    ELSE IF o.name.kind \in {"null", "undefined"} THEN "yarn"
    ELSE o.name.message

\* detectPackageManager that keeps the manager of an earlier invocation
detectPackageManagerNameCached(o) ==
    IF packageManager # "" THEN packageManager
    ELSE IF o.threw THEN "npm"
    ELSE IF o.isNull THEN "npm"
    ELSE IF o.name.kind \in {"null", "undefined"} THEN "npm"
    ELSE o.name.message

\* result?.name ?? 'npm', and 'npm' when detect() rejects
detectPackageManagerName(o) ==
    IF o.threw THEN "npm"
    ELSE IF o.isNull THEN "npm"
    ELSE IF o.name.kind \in {"null", "undefined"} THEN "npm"
    ELSE o.name.message

\* the logger.error call in the catch clause of detectPackageManager
detectPackageManagerLogs(o) ==
    IF o.threw
    THEN <<LogEntry("error", "Error detecting package manager: "
                             \o ErrorText(o.val))>>
    ELSE <<>>

\* executeLinkWithFallback that starts the link and the add command together
detectPackageManagerParallel(o) ==
    /\ pc = "detect"
    /\ sink = "ok"
    /\ UNCHANGED <<stats, reads>>
    /\ LET manager == detectPackageManagerName(o)
           linkCommand == createLinkCommand(manager, req.packagePath)
           addCommand == getAddCommand(manager, req.packagePath,
                                       dependencyTypeOf(req))
       IN  /\ detections' = Append(detections, o)
           /\ packageManager' = manager
           /\ logs' = logs \o detectPackageManagerLogs(o)
           /\ cmds' = cmds \o <<[command |-> linkCommand,
                                  cwd |-> req.projectPath],
                                 [command |-> addCommand.val.message,
                                  cwd |-> req.projectPath]>>
           /\ pc' = "link"
    /\ UNCHANGED <<req, detectCalls, execs, validated, result, rejection,
                   calls, otherVars>>

\* detect() settles; executeLinkWithFallback builds the link command and
\* executeCommand hands it to cp.exec
detectPackageManager(o) ==
    /\ pc = "detect"
    /\ sink = "ok"
    /\ UNCHANGED <<stats, reads>>
    /\ LET manager == detectPackageManagerName(o)
           linkCommand == createLinkCommand(manager, req.packagePath)
       IN  /\ detections' = Append(detections, o)
           /\ packageManager' = manager
           /\ logs' = logs \o detectPackageManagerLogs(o)
                      \o <<LogEntry("info", "Command to link package: "
                                            \o linkCommand)>>
                      \o executeCommandStartLogs(linkCommand, req.projectPath)
           /\ cmds' = Append(cmds, [command |-> linkCommand,
                                    cwd |-> req.projectPath])
           /\ pc' = "link"
    /\ UNCHANGED <<req, detectCalls, execs, validated, result, rejection,
                   calls, otherVars>>

\* the link command settles: success, fallback to the add command, or failure
executeLinkWithFallbackLink(o) ==
    /\ pc = "link"
    /\ sink = "ok"
    /\ UNCHANGED <<stats, reads>>
    /\ execs' = Append(execs, o)
    /\ LET settled == executeCommand(o)
           linkError == settled.val
           addCommand == getAddCommand(packageManager, req.packagePath,
                                       dependencyTypeOf(req))
       IN  IF ~settled.threw
           THEN /\ Returned(
                     [message |-> "Successfully linked " \o req.packageName
                                  \o " from " \o req.packagePath
                                  \o " to project at " \o req.projectPath
                                  \o "\n" \o settled.val.message,
                      error |-> UNDEFINED,
                      success |-> TRUE])
                /\ logs' = logs \o executeCommandLogs(o)
                /\ UNCHANGED cmds
           ELSE IF InstanceOfError(linkError) /\ isWorkspaceError(linkError)
           THEN IF addCommand.threw
                THEN /\ npmLinkCatch(addCommand.val)
                     /\ logs' = logs \o executeCommandLogs(o)
                          \o <<LogEntry("info",
                                 "Link failed with workspace error, trying add as fallback")>>
                     /\ UNCHANGED cmds
                ELSE /\ logs' = logs \o executeCommandLogs(o)
                          \o <<LogEntry("info",
                                 "Link failed with workspace error, trying add as fallback"),
                               LogEntry("info",
                                 "Fallback command to add package: "
                                 \o addCommand.val.message)>>
                          \o executeCommandStartLogs(addCommand.val.message,
                                                     req.projectPath)
                     /\ cmds' = Append(cmds,
                                       [command |-> addCommand.val.message,
                                        cwd |-> req.projectPath])
                     /\ pc' = "add"
                     /\ UNCHANGED <<result, rejection>>
           ELSE /\ npmLinkCatch(linkError)
                /\ logs' = logs \o executeCommandLogs(o)
                /\ UNCHANGED cmds
    /\ UNCHANGED <<req, packageManager, detectCalls, detections, validated,
                   calls, otherVars>>

\* the fallback that reports the failure of the link command when the add
\* command fails
executeLinkWithFallbackAddLinkError(o) ==
    /\ pc = "add"
    /\ sink = "ok"
    /\ UNCHANGED <<stats, reads>>
    /\ execs' = Append(execs, o)
    /\ logs' = logs \o executeCommandLogs(o)
    /\ LET settled == executeCommand(o)
       IN  IF ~settled.threw
           THEN Returned(
                    [message |-> "Successfully added " \o req.packageName
                                 \o " from " \o req.packagePath
                                 \o " to project at " \o req.projectPath
                                 \o " (fallback from link)\n"
                                 \o settled.val.message,
                     error |-> UNDEFINED,
                     success |-> TRUE])
           ELSE npmLinkCatch(executeCommand(execs[1]).val)
    /\ UNCHANGED <<req, packageManager, cmds, detectCalls, detections,
                   validated, calls, otherVars>>

\* a variant that tries the link command once more when the add command fails
executeLinkWithFallbackAddRetries(o) ==
    /\ pc = "add"
    /\ sink = "ok"
    /\ UNCHANGED <<stats, reads>>
    /\ execs' = Append(execs, o)
    /\ logs' = logs \o executeCommandLogs(o)
    /\ LET settled == executeCommand(o)
       IN  IF ~settled.threw
           THEN Returned(
                    [message |-> "Successfully added " \o req.packageName
                                 \o " from " \o req.packagePath
                                 \o " to project at " \o req.projectPath
                                 \o " (fallback from link)\n"
                                 \o settled.val.message,
                     error |-> UNDEFINED,
                     success |-> TRUE])
           ELSE IF Len(execs) < 2
                THEN /\ pc' = "link"
                     /\ UNCHANGED <<result, rejection>>
                ELSE npmLinkCatch(settled.val)
    /\ UNCHANGED <<req, packageManager, cmds, detectCalls, detections,
                   validated, calls, otherVars>>

\* the add command settles: success or failure, nothing further is tried
executeLinkWithFallbackAdd(o) ==
    /\ pc = "add"
    /\ sink = "ok"
    /\ UNCHANGED <<stats, reads>>
    /\ execs' = Append(execs, o)
    /\ logs' = logs \o executeCommandLogs(o)
    /\ LET settled == executeCommand(o)
       IN  IF ~settled.threw
           THEN Returned(
                    [message |-> "Successfully added " \o req.packageName
                                 \o " from " \o req.packagePath
                                 \o " to project at " \o req.projectPath
                                 \o " (fallback from link)\n"
                                 \o settled.val.message,
                     error |-> UNDEFINED,
                     success |-> TRUE])
           ELSE npmLinkCatch(settled.val)
    /\ UNCHANGED <<req, packageManager, cmds, detectCalls, detections,
                   validated, calls, otherVars>>

(***************************************************************************)
(* StorageService (src/extension/services/storage-service.ts)              *)
(*                                                                         *)
(* stored is the array kept under the key 'linkedPackages' of globalState. *)
(* saveLinkedPackage and removeLinkedPackage read it, compute the new      *)
(* array and hand it to globalState.update without an await in between.    *)
(***************************************************************************)
StoreNames == {"foo", "bar", "baz"}
StorePaths == {"/a", "/b"}
StoreDates == {"2025-03-30T10:00:00.000Z", "2025-03-30T11:00:00.000Z"}

LinkedPackage ==
    [packageName : StoreNames, localPath : StorePaths, linkedAt : StoreDates]

\* what find returns when no entry matches
NoPackage == [packageName |-> "", localPath |-> "", linkedAt |-> ""]

StoreInit ==
    /\ stored = <<>>
    /\ lastSaved = [n \in StoreNames |-> NoPackage]

\* Array.prototype.findIndex on the package name; 0 stands for -1
findIndex(linkedPackages, packageName) ==
    IF \E i \in 1..Len(linkedPackages) :
           linkedPackages[i].packageName = packageName
    THEN CHOOSE i \in 1..Len(linkedPackages) :
           /\ linkedPackages[i].packageName = packageName
           /\ \A j \in 1..(i - 1) :
                 linkedPackages[j].packageName # packageName
    ELSE 0

getLinkedPackages == stored

getLinkedPackage(packageName) ==
    LET linkedPackages == getLinkedPackages
        index == findIndex(linkedPackages, packageName)
    IN  IF index = 0 THEN NoPackage ELSE linkedPackages[index]

\* saveLinkedPackage that pushes without looking for an existing entry
saveLinkedPackageAlwaysPush(packageInfo) ==
    /\ stored' = Append(getLinkedPackages, packageInfo)
    /\ lastSaved' = [lastSaved EXCEPT ![packageInfo.packageName] = packageInfo]
    /\ UNCHANGED <<linkVars, cmdVars, callerVars, serviceVars>>

\* saveLinkedPackage that drops the existing entry and pushes the new one
saveLinkedPackageMovesToEnd(packageInfo) ==
    /\ LET linkedPackages == getLinkedPackages
           keep(package_) == package_.packageName # packageInfo.packageName
       IN  stored' = Append(SelectSeq(linkedPackages, keep), packageInfo)
    /\ lastSaved' = [lastSaved EXCEPT ![packageInfo.packageName] = packageInfo]
    /\ UNCHANGED <<linkVars, cmdVars, callerVars, serviceVars>>

saveLinkedPackage(packageInfo) ==
    /\ LET linkedPackages == getLinkedPackages
           existingIndex == findIndex(linkedPackages, packageInfo.packageName)
       IN  stored' = IF existingIndex = 0
                     THEN Append(linkedPackages, packageInfo)
                     ELSE [linkedPackages EXCEPT ![existingIndex] = packageInfo]
    /\ lastSaved' = [lastSaved EXCEPT ![packageInfo.packageName] = packageInfo]
    /\ UNCHANGED <<linkVars, cmdVars, callerVars, serviceVars>>

removeLinkedPackage(packageName) ==
    /\ LET linkedPackages == getLinkedPackages
           keep(package_) == package_.packageName # packageName
       IN  stored' = SelectSeq(linkedPackages, keep)
    /\ lastSaved' = [lastSaved EXCEPT ![packageName] = NoPackage]
    /\ UNCHANGED <<linkVars, cmdVars, callerVars, serviceVars>>

(***************************************************************************)
(* The command handler and the three-argument npmLink before their first   *)
(* call                                                                    *)
(***************************************************************************)
NoArguments == [name |-> "", type |-> "", version |-> ""]

IdleHandler ==
    [pc |-> "idle", arguments |-> NoArguments, savedPackage |-> NoPackage,
     packagePath |-> "", projectPath |-> "", npmLinkCalls |-> <<>>,
     saveCalls |-> <<>>, errorMessages |-> <<>>,
     informationMessages |-> <<>>, result |-> NoResult,
     choices |-> <<>>, dialogs |-> <<>>, workspaces |-> <<>>,
     linked |-> <<>>, saved |-> <<>>]

\* the simple npmLink has not been called
IdleSimple ==
    [pc |-> "idle", call |-> 0, cmds |-> <<>>, detections |-> <<>>,
     execs |-> <<>>, logs |-> <<>>, result |-> NoResult]

CallerInit ==
    /\ handler = IdleHandler
    /\ simple = IdleSimple

\* the logger module after import: let outputChannel is undefined (0); created
\* lists the names given to createOutputChannel, a channel being known by
\* its place in that list
IdleChannel ==
    [outputChannel |-> 0, created |-> <<>>, lines |-> <<>>,
     notifications |-> <<>>, calls |-> <<>>]

\* getDependencyAtPosition has not been called
NoDocument == [fileName |-> "", sections |-> <<>>, read |-> "ok"]
NoDependency == [name |-> "", version |-> "", type |-> ""]
IdleHover ==
    [pc |-> "idle", document |-> NoDocument,
     position |-> [section |-> 0, entry |-> 0], result |-> NoDependency,
     logs |-> <<>>]

\* no saveLinkedPackage call is waiting for globalState.update; during[n] is
\* the set of package names whose save was waiting at the same time as the
\* save of n that resolved last
NoPending ==
    [updates |-> <<>>, during |-> [n \in StoreNames |-> {}]]

ServiceInit ==
    /\ channel = IdleChannel
    /\ hover = IdleHover
    /\ pending = NoPending

Init ==
    /\ LinkInit
    /\ cmdIn = NoCmdIn
    /\ cmdOut = NoCmdOut
    /\ StoreInit
    /\ CallerInit
    /\ ServiceInit

Next ==
    \/ \E options \in LinkOptions : npmLink(options)
    \/ \E o \in StatOutcomes : validatePackageStatPath(o)
    \/ \E o \in StatOutcomes : validatePackageStatJson(o)
    \/ \E o \in ReadOutcomes : validatePackageReadJson(o)
    \/ \E o \in DetectOutcomes : detectPackageManager(o)
    \/ \E o \in ExecOutcomes : executeLinkWithFallbackLink(o)
    \/ \E o \in ExecOutcomes : executeLinkWithFallbackAdd(o)

Spec == Init /\ [][Next]_vars

(***************************************************************************)
(* npmLink when the external steps complete                                *)
(*                                                                         *)
(* A promise of fs.stat, fs.readFile or detect() that settles has its      *)
(* continuation run by the event loop; cp.exec has no timeout, so the      *)
(* callback of a command is not assumed to come.                           *)
(***************************************************************************)
LiveDetectOutcomes ==
    {o \in DetectOutcomes :
        o.threw \/ o.isNull \/ o.name \in {Str("yarn"), Str("unknown-manager")}}

LiveExecOutcomes ==
    {o \in ExecOutcomes :
        \/ o.threw
        \/ /\ o.stdout \in {"ok", ""}
           /\ o.stderr \in {"", "Some other error", "No WorkSpace found"}
           /\ o.error \in {NULL, Str("Command failed")}}

StatPathCompletes == \E o \in StatOutcomes : validatePackageStatPath(o)
StatJsonCompletes == \E o \in StatOutcomes : validatePackageStatJson(o)
ReadJsonCompletes == \E o \in ReadOutcomes : validatePackageReadJson(o)
DetectCompletes == \E o \in LiveDetectOutcomes : detectPackageManager(o)
LinkCompletes == \E o \in LiveExecOutcomes : executeLinkWithFallbackLink(o)
AddCompletes == \E o \in LiveExecOutcomes : executeLinkWithFallbackAdd(o)

LiveNext ==
    \/ \E options \in LinkOptions : npmLink(options)
    \/ StatPathCompletes
    \/ StatJsonCompletes
    \/ ReadJsonCompletes
    \/ DetectCompletes
    \/ LinkCompletes
    \/ AddCompletes

SpecLive ==
    /\ Init /\ [][LiveNext]_vars
    /\ WF_vars(StatPathCompletes)
    /\ WF_vars(StatJsonCompletes)
    /\ WF_vars(ReadJsonCompletes)
    /\ WF_vars(DetectCompletes)

(***************************************************************************)
(* The simple npmLink (src/unnamed/part_000): two fs.stat checks, the       *)
(* detector, one link command, no manifest check and no fallback.           *)
(*                                                                         *)
(* It is called with the request of the invocation that has just returned   *)
(* and meets the same outside world: each of its external calls settles as  *)
(* the same call of that invocation did (stats, detections, execs), and a   *)
(* call that invocation never made settles in any way.                      *)
(***************************************************************************)
\* the switch on packageManager that builds linkCommand
simpleLinkCommandNpmOnly(manager, packagePath) == "npm link " \o packagePath

simpleLinkCommand(manager, packagePath) ==
    CASE manager = "yarn" -> "yarn link " \o packagePath
      [] manager = "pnpm" -> "pnpm link " \o packagePath
      [] manager = "bun" -> "bun link " \o packagePath
      [] OTHER -> "npm link " \o packagePath

\* how the promise of the simple executeCommand settles: the rejection
\* carries stderr only
simpleExecuteCommand(o) ==
    IF o.threw THEN Throw(o.val)
    ELSE IF Truthy(o.error)
         THEN Throw(Err("Command execution failed: " \o o.stderr))
         ELSE Return(Str(trim(o.stdout)))

\* the catch clause of the simple npmLink
simpleCatch(error) ==
    [message |-> "Failed to create link: " \o ErrorText(error),
     error |-> AsError(error),
     success |-> FALSE]

\* the outcome of the i-th call of a kind: the recorded one when the
\* invocation made that call, any outcome otherwise
SameWorld(recorded, i, o) == Len(recorded) >= i => o = recorded[i]

SimpleRuns == pc = "returned" /\ simple.call = calls

SimpleReturned(r) == simple' = [simple EXCEPT !.pc = "returned", !.result = r]

\* the simple npmLink is called: it runs up to its first fs.stat
simpleNpmLink ==
    /\ pc = "returned"
    /\ simple.call # calls
    /\ simple' = [IdleSimple EXCEPT !.pc = "statPackagePath",
                                    !.call = calls]
    /\ UNCHANGED <<linkVars, cmdVars, storeVars, handler, serviceVars>>

\* fs.stat(packagePath) settles
simpleStatPath(o) ==
    /\ SimpleRuns
    /\ simple.pc = "statPackagePath"
    /\ SameWorld(stats, 1, o)
    /\ IF o.threw THEN SimpleReturned(simpleCatch(o.val))
       ELSE IF ~o.isDirectory
       THEN SimpleReturned(
                [message |-> "Package directory does not exist: "
                             \o req.packagePath,
                 error |-> UNDEFINED,
                 success |-> FALSE])
       ELSE simple' = [simple EXCEPT !.pc = "statPackageJson"]
    /\ UNCHANGED <<linkVars, cmdVars, storeVars, handler, serviceVars>>

\* fs.stat(packageJsonPath) settles; when it is a file detect() is called
simpleStatJson(o) ==
    /\ SimpleRuns
    /\ simple.pc = "statPackageJson"
    /\ SameWorld(stats, 2, o)
    /\ IF o.threw THEN SimpleReturned(simpleCatch(o.val))
       ELSE IF ~o.isFile
       THEN SimpleReturned(
                [message |-> "No package.json found in: " \o req.packagePath,
                 error |-> UNDEFINED,
                 success |-> FALSE])
       ELSE simple' = [simple EXCEPT !.pc = "detect"]
    /\ UNCHANGED <<linkVars, cmdVars, storeVars, handler, serviceVars>>

\* detect() settles; the link command is built and handed to cp.exec
simpleDetect(o) ==
    /\ SimpleRuns
    /\ simple.pc = "detect"
    /\ SameWorld(detections, 1, o)
    /\ LET manager == detectPackageManagerName(o)
           linkCommand == simpleLinkCommand(manager, req.packagePath)
       IN  simple' =
               [simple EXCEPT
                   !.pc = "link",
                   !.detections = Append(@, o),
                   !.logs = @ \o detectPackageManagerLogs(o)
                            \o <<LogEntry("info", "Command to link package: "
                                                  \o linkCommand)>>
                            \o executeCommandStartLogs(linkCommand,
                                                       req.projectPath),
                   !.cmds = Append(@, [command |-> linkCommand,
                                       cwd |-> req.projectPath])]
    /\ UNCHANGED <<linkVars, cmdVars, storeVars, handler, serviceVars>>

\* the link command settles: success or failure, nothing further is tried
simpleLink(o) ==
    /\ SimpleRuns
    /\ simple.pc = "link"
    /\ SameWorld(execs, 1, o)
    /\ LET settled == simpleExecuteCommand(o)
           r == IF ~settled.threw
                THEN [message |-> "Successfully linked " \o req.packageName
                                  \o " from " \o req.packagePath
                                  \o " to project at " \o req.projectPath
                                  \o "\n" \o settled.val.message,
                      error |-> UNDEFINED,
                      success |-> TRUE]
                ELSE simpleCatch(settled.val)
       IN  simple' = [simple EXCEPT !.pc = "returned",
                                    !.result = r,
                                    !.execs = Append(@, o),
                                    !.logs = @ \o executeCommandLogs(o)]
    /\ UNCHANGED <<linkVars, cmdVars, storeVars, handler, serviceVars>>

SimpleNext ==
    \/ LiveNext
    \/ simpleNpmLink
    \/ \E o \in StatOutcomes : simpleStatPath(o)
    \/ \E o \in StatOutcomes : simpleStatJson(o)
    \/ \E o \in LiveDetectOutcomes : simpleDetect(o)
    \/ \E o \in LiveExecOutcomes : simpleLink(o)

SpecSimple == Init /\ [][SimpleNext]_vars

(***************************************************************************)
(* The logger (src/extension/utilities/logger.ts)                           *)
(*                                                                         *)
(* Every method takes the output channel from getOutputChannel and appends  *)
(* one line to it; info, warn and error show a notification when notify is  *)
(* true.  The clock is an input: date is what getFormattedDate returns.     *)
(***************************************************************************)
MaxLogCalls == 2

LogMessages == {"Test info message", "x"}
LogDates == {"3/30/2025, 10:00:00"}
LogArguments == {<<>>, <<"x">>, <<"Test", "general", "message">>}
\* the notify argument: left out (the default, false), true or false
NotifyOptions == {"omitted", "true", "false"}

\* Array.prototype.join(' ')
RECURSIVE join(_)
join(arguments_) ==
    IF Len(arguments_) = 0 THEN ""
    ELSE IF Len(arguments_) = 1 THEN arguments_[1]
    ELSE arguments_[1] \o " " \o join(Tail(arguments_))

\* getOutputChannel that creates a channel on every call
getOutputChannelAlwaysCreates(c) ==
    [c EXCEPT !.created = Append(@, "Package Linker"),
              !.outputChannel = Len(c.created) + 1]

\* outputChannel ??= vscode.window.createOutputChannel('Package Linker')
getOutputChannel(c) ==
    IF c.outputChannel = 0
    THEN [c EXCEPT !.created = Append(@, "Package Linker"),
                   !.outputChannel = Len(c.created) + 1]
    ELSE c

\* channel.appendLine(text) on the channel getOutputChannel returned
appendLine(c, text) ==
    [c EXCEPT !.lines = Append(@, [channel |-> c.outputChannel,
                                   text |-> text])]

\* showInformationMessage, showWarningMessage, showErrorMessage
showMessage(c, level, message) ==
    [c EXCEPT !.notifications = Append(@, [level |-> level,
                                           message |-> message])]

LoggerCalled(method, message, notify) ==
    [method |-> method, message |-> message, notify |-> notify]

\* the body of info, warn and error: one line with the level tag, and the
\* notification when notify is true
levelLine(c, method, tag, message, notify, date) ==
    LET appended == appendLine(getOutputChannel(c),
                               date \o ": " \o tag \o " " \o message)
        shown == IF notify = "true"
                 THEN showMessage(appended, method, message)
                 ELSE appended
    IN  [shown EXCEPT
            !.calls = Append(@, LoggerCalled(method, message, notify))]

\* the body of log, debug and init: one line, no notification
plainLine(c, method, message, text, date) ==
    LET appended == appendLine(getOutputChannel(c), date \o ": " \o text)
    IN  [appended EXCEPT
            !.calls = Append(@, LoggerCalled(method, message, "omitted"))]

\* info that never shows the notification
loggerInfoNeverNotifies(message, notify, date) ==
    /\ Len(channel.calls) < MaxLogCalls
    /\ channel' = [levelLine(channel, "info", "[INFO]", message, "false", date)
                      EXCEPT !.calls = Append(channel.calls,
                                 LoggerCalled("info", message, notify))]
    /\ UNCHANGED <<linkVars, cmdVars, storeVars, callerVars, hover, pending>>

loggerInfo(message, notify, date) ==
    /\ Len(channel.calls) < MaxLogCalls
    /\ channel' = levelLine(channel, "info", "[INFO]", message, notify, date)
    /\ UNCHANGED <<linkVars, cmdVars, storeVars, callerVars, hover, pending>>

loggerWarn(message, notify, date) ==
    /\ Len(channel.calls) < MaxLogCalls
    /\ channel' = levelLine(channel, "warn", "[WARN]", message, notify, date)
    /\ UNCHANGED <<linkVars, cmdVars, storeVars, callerVars, hover, pending>>

loggerError(message, notify, date) ==
    /\ Len(channel.calls) < MaxLogCalls
    /\ channel' = levelLine(channel, "error", "[ERROR]", message, notify, date)
    /\ UNCHANGED <<linkVars, cmdVars, storeVars, callerVars, hover, pending>>

loggerLog(arguments_, date) ==
    /\ Len(channel.calls) < MaxLogCalls
    /\ channel' = plainLine(channel, "log", join(arguments_),
                            join(arguments_), date)
    /\ UNCHANGED <<linkVars, cmdVars, storeVars, callerVars, hover, pending>>

loggerDebug(message, date) ==
    /\ Len(channel.calls) < MaxLogCalls
    /\ channel' = plainLine(channel, "debug", message,
                            "[DEBUG] " \o message, date)
    /\ UNCHANGED <<linkVars, cmdVars, storeVars, callerVars, hover, pending>>

loggerInit(date) ==
    /\ Len(channel.calls) < MaxLogCalls
    /\ channel' = plainLine(channel, "init", "",
                            "Package Linker initialized", date)
    /\ UNCHANGED <<linkVars, cmdVars, storeVars, callerVars, hover, pending>>

LoggerNext ==
    \/ \E message \in LogMessages, notify \in NotifyOptions, date \in LogDates :
          loggerInfo(message, notify, date)
    \/ \E message \in LogMessages, notify \in NotifyOptions, date \in LogDates :
          loggerWarn(message, notify, date)
    \/ \E message \in LogMessages, notify \in NotifyOptions, date \in LogDates :
          loggerError(message, notify, date)
    \/ \E arguments_ \in LogArguments, date \in LogDates :
          loggerLog(arguments_, date)
    \/ \E message \in LogMessages, date \in LogDates :
          loggerDebug(message, date)
    \/ \E date \in LogDates : loggerInit(date)

SpecLogger == Init /\ [][LoggerNext]_vars

(***************************************************************************)
(* getDependencyAtPosition (src/extension/services/storage-service.ts,      *)
(* lines 96-240)                                                           *)
(*                                                                         *)
(* A document is the list of its top-level sections in the order of the     *)
(* text, each with its entries "name": "version" in the order of the text.  *)
(* A position is the place of an entry (section, entry), or of the line     *)
(* that opens a section (entry 0).  The file read from disk holds the same  *)
(* text as the document.                                                    *)
(***************************************************************************)
\* the order in which parseDependencies goes through the sections
dependencyTypes ==
    <<"dependencies", "devDependencies", "peerDependencies",
      "optionalDependencies">>

HoverSectionTypes == {"dependencies", "devDependencies", "overrides"}
HoverNames == {"foo", "bar"}
HoverFiles == {"/proj/package.json", "/proj/tsconfig.json"}
HoverReads == {"ok", "rejects"}
MaxSections == 2
MaxEntries == 2

VersionIn(type) ==
    CASE type = "dependencies" -> "^1.0.0"
      [] type = "devDependencies" -> "^2.0.0"
      [] OTHER -> "3.0.0"

\* sequences without repetition over a set, up to a length
DistinctSeqs(S, n) ==
    {q \in UNION {[1..k -> S] : k \in 1..n} :
        \A i, j \in 1..Len(q) : q[i] = q[j] => i = j}

HoverSections ==
    {[type |-> t,
      entries |-> [i \in 1..Len(names) |->
                      [name |-> names[i], version |-> VersionIn(t)]]] :
        t \in HoverSectionTypes, names \in DistinctSeqs(HoverNames, MaxEntries)}

\* the documents hovered: every text of up to MaxSections sections as a
\* readable package.json, and the texts of one section also under another
\* file name or with a failing read
HoverDocuments ==
    {document \in
        {[fileName |-> f, sections |-> q, read |-> r] :
            f \in HoverFiles, r \in HoverReads,
            q \in {d \in UNION {[1..k -> HoverSections] :
                                   k \in 1..MaxSections} :
                      \A i, j \in 1..Len(d) : d[i].type = d[j].type => i = j}} :
        \/ Len(document.sections) = 1
        \/ document.fileName = "/proj/package.json" /\ document.read = "ok"}

HoverPositions(document) ==
    {p \in [section : 1..MaxSections, entry : 0..MaxEntries] :
        /\ p.section <= Len(document.sections)
        /\ p.entry <= Len(document.sections[p.section].entries)}

\* path.basename of a POSIX path
RECURSIVE basename(_)
basename(p) ==
    IF Len(p) = 0 THEN ""
    ELSE IF SubSeq(p, Len(p), Len(p)) = "/" THEN ""
    ELSE basename(SubSeq(p, 1, Len(p) - 1)) \o SubSeq(p, Len(p), Len(p))

\* JSON.stringify of an object of strings
RECURSIVE stringifyEntries(_)
stringifyEntries(entries) ==
    IF Len(entries) = 0 THEN ""
    ELSE "\"" \o entries[1].name \o "\":\"" \o entries[1].version \o "\""
         \o (IF Len(entries) > 1 THEN "," ELSE "")
         \o stringifyEntries(Tail(entries))

\* packageJson[type]: the entries of the section of that name, if any
sectionOf(document, type) ==
    IF \E i \in 1..Len(document.sections) : document.sections[i].type = type
    THEN (CHOOSE sec \in {document.sections[i] :
                             i \in 1..Len(document.sections)} :
              sec.type = type).entries
    ELSE <<>>

\* the loop of parseDependencies over dependencyTypes from index k on
RECURSIVE parseFrom(_, _)
parseFrom(document, k) ==
    IF k > Len(dependencyTypes) THEN [dependencies |-> <<>>, logs |-> <<>>]
    ELSE LET type == dependencyTypes[k]
             deps == sectionOf(document, type)
             rest == parseFrom(document, k + 1)
         IN  IF deps = <<>> THEN rest
             ELSE [dependencies |->
                       [i \in 1..Len(deps) |->
                           [name |-> deps[i].name,
                            version |-> deps[i].version,
                            type |-> type]] \o rest.dependencies,
                   logs |->
                       <<LogEntry("info", "Found " \o type \o ": {"
                                          \o stringifyEntries(deps) \o "}")>>
                       \o rest.logs]

\* parseDependencies once fs.readFile has settled: the dependencies and the
\* logger calls made
parseDependencies(document) ==
    IF document.read = "rejects"
    THEN [dependencies |-> <<>>,
          logs |-> <<LogEntry("error",
                              "Error parsing package.json: Read error")>>]
    ELSE LET parsed == parseFrom(document, 1)
         IN  [dependencies |-> parsed.dependencies,
              logs |-> parsed.logs
                       \o <<LogEntry("info", "Total dependencies found: "
                                     \o ToString(Len(parsed.dependencies)))>>]

\* the places of all entries of the document, in the order of the text
RECURSIVE entryPlaces(_, _)
entryPlaces(document, i) ==
    IF i > Len(document.sections) THEN <<>>
    ELSE [j \in 1..Len(document.sections[i].entries) |->
             [section |-> i, entry |-> j]]
         \o entryPlaces(document, i + 1)

NoRange == [section |-> 0, entry |-> 0]

\* dependencyRegex.exec(text): the first entry of the text, in whatever
\* section, whose key is the dependency name; NoRange stands for null
getDependencyRange(document, dependencyName) ==
    LET places == entryPlaces(document, 1)
        named(p) ==
            document.sections[p.section].entries[p.entry].name
              = dependencyName
        matches == SelectSeq(places, named)
    IN  IF matches = <<>> THEN NoRange ELSE matches[1]

\* the loop of getDependencyAtPosition over the dependencies from index k on
RECURSIVE findAtPosition(_, _, _, _)
findAtPosition(document, position, dependencies, k) ==
    IF k > Len(dependencies)
    THEN [result |-> NoDependency,
          logs |-> <<LogEntry("info", "No dependency found at position")>>]
    ELSE LET dependency == dependencies[k]
             range == getDependencyRange(document, dependency.name)
             checking ==
                 (IF range = NoRange
                  THEN <<LogEntry("info", "No range found for dependency: "
                                          \o dependency.name
                                          \o " in document: "
                                          \o document.fileName)>>
                  ELSE <<>>)
                 \o <<LogEntry("info", "Checking if position is in range for "
                                       \o dependency.name)>>
         IN  IF range # NoRange /\ range = position
             THEN [result |-> dependency,
                   logs |-> checking
                            \o <<LogEntry("info",
                                          "Found dependency at position: "
                                          \o dependency.name)>>]
             ELSE LET rest == findAtPosition(document, position,
                                             dependencies, k + 1)
                  IN  [result |-> rest.result,
                       logs |-> checking \o rest.logs]

\* getDependencyAtPosition is called with the document and the position of
\* hover: it returns null for a document that is not package.json, and
\* waits for fs.readFile otherwise
getDependencyAtPosition ==
    /\ hover.pc = "idle"
    /\ LET document == hover.document
       IN  IF basename(document.fileName) # "package.json"
           THEN hover' = [hover EXCEPT
                             !.pc = "returned",
                             !.logs = <<LogEntry("info",
                                          "Document is not package.json: "
                                          \o document.fileName)>>]
           ELSE hover' = [hover EXCEPT
                             !.pc = "readFile",
                             !.logs = <<LogEntry("info", "Package.json path: "
                                                  \o document.fileName),
                                        LogEntry("info",
                                          "Parsing dependencies from package.json: "
                                          \o document.fileName)>>]
    /\ UNCHANGED <<linkVars, cmdVars, storeVars, callerVars, channel, pending>>

\* fs.readFile settles: the dependencies are parsed and searched
getDependencyAtPositionRead ==
    /\ hover.pc = "readFile"
    /\ LET parsed == parseDependencies(hover.document)
           found == findAtPosition(hover.document, hover.position,
                                   parsed.dependencies, 1)
       IN  hover' = [hover EXCEPT
                        !.pc = "returned",
                        !.result = found.result,
                        !.logs = @ \o parsed.logs
                                 \o <<LogEntry("info", "Found "
                                        \o ToString(Len(parsed.dependencies))
                                        \o " dependencies in package.json")>>
                                 \o found.logs]
    /\ UNCHANGED <<linkVars, cmdVars, storeVars, callerVars, channel, pending>>

\* the document and the position of the call are drawn at the start
HoverInit ==
    /\ LinkInit
    /\ cmdIn = NoCmdIn
    /\ cmdOut = NoCmdOut
    /\ StoreInit
    /\ CallerInit
    /\ channel = IdleChannel
    /\ pending = NoPending
    /\ hover \in {[IdleHover EXCEPT !.document = document,
                                    !.position = position] :
                      document \in HoverDocuments,
                      position \in [section : 1..MaxSections,
                                    entry : 0..MaxEntries]}
    /\ hover.position \in HoverPositions(hover.document)

HoverNext ==
    \/ getDependencyAtPosition
    \/ getDependencyAtPositionRead

SpecHover == HoverInit /\ [][HoverNext]_vars

(***************************************************************************)
(* saveLinkedPackage called again while an earlier call is waiting          *)
(* (src/extension/services/storage-service.ts, lines 35-51)                 *)
(*                                                                         *)
(* A call runs without interruption from getLinkedPackages to the call of   *)
(* globalState.update and is suspended only by the await of the promise     *)
(* update returned.  globalState is the Memento of the extension host, which *)
(* the storage tests stand in for (src/unnamed/part_004, lines 241-250):    *)
(* update puts the value where get reads it before it returns its promise.  *)
(***************************************************************************)
MaxPending == 2

\* the packages saved while another save may be waiting
SavePackages ==
    {packageInfo \in LinkedPackage :
        /\ packageInfo.packageName \in {"foo", "bar"}
        /\ packageInfo.localPath = "/a"}

\* the i-th element of a sequence taken out
RemoveAt(q, i) == SubSeq(q, 1, i - 1) \o SubSeq(q, i + 1, Len(q))

\* saveLinkedPackage runs up to its await: the list is read, changed and
\* handed to globalState.update
saveLinkedPackageCalled(packageInfo) ==
    /\ Len(pending.updates) < MaxPending
    /\ LET linkedPackages == getLinkedPackages
           existingIndex == findIndex(linkedPackages, packageInfo.packageName)
           updated == IF existingIndex = 0
                      THEN Append(linkedPackages, packageInfo)
                      ELSE [linkedPackages EXCEPT
                               ![existingIndex] = packageInfo]
           waiting == {pending.updates[i].packageName :
                          i \in 1..Len(pending.updates)}
       IN  /\ stored' = updated
           /\ pending' =
                 [pending EXCEPT
                     !.updates =
                         Append([i \in 1..Len(@) |->
                                    [@[i] EXCEPT !.during =
                                        @ \cup {packageInfo.packageName}]],
                                [packageName |-> packageInfo.packageName,
                                 value |-> updated,
                                 during |-> waiting])]
    /\ lastSaved' = [lastSaved EXCEPT ![packageInfo.packageName] = packageInfo]
    /\ UNCHANGED <<linkVars, cmdVars, callerVars, channel, hover>>

\* a Memento that puts the value in place once more when the write is done
updateResolvesWritesAgain(i) ==
    /\ i \in 1..Len(pending.updates)
    /\ stored' = pending.updates[i].value
    /\ pending' =
          [pending EXCEPT
              !.updates = RemoveAt(@, i),
              !.during[pending.updates[i].packageName] =
                  pending.updates[i].during]
    /\ UNCHANGED <<linkVars, cmdVars, callerVars, channel, hover, lastSaved>>

\* the promise of a globalState.update call resolves and the
\* saveLinkedPackage call that awaited it returns
updateResolves(i) ==
    /\ i \in 1..Len(pending.updates)
    /\ pending' =
          [pending EXCEPT
              !.updates = RemoveAt(@, i),
              !.during[pending.updates[i].packageName] =
                  pending.updates[i].during]
    /\ UNCHANGED <<linkVars, cmdVars, storeVars, callerVars, channel, hover>>

SaveNext ==
    \/ \E packageInfo \in SavePackages : saveLinkedPackageCalled(packageInfo)
    \/ \E i \in 1..MaxPending : updateResolves(i)

SpecSave == Init /\ [][SaveNext]_vars

(***************************************************************************)
(* The command selector on its own: every manager name, package path and   *)
(* dependency-type spelling of the sets below                              *)
(***************************************************************************)
CanonicalTypes == {"prod", "dev", "peer", "optional"}
KnownManagers == {"npm", "yarn", "pnpm", "bun"}

ManagerInputs ==
    KnownManagers \cup {"deno", "unknown-manager", "", "NPM", "constructor",
                        "toString"}

PathInputs == {"/pkg", "/path/to/my package"}

DependencyTypeInputs ==
    {UNDEFINED}
    \cup {Str(t) : t \in CanonicalTypes}
    \cup {Str("devDependencies"), Str("peerDependencies"),
          Str("optionalDependencies"), Str("dependencies"), Str("DEV"),
          Str("Peer"), Str("OptionalDependencies"), Str("DevDependencies"),
          Str("PEERDEPENDENCIES"), Str(""), Str("unknown"),
          Str("development"), Str(" dev")}

CmdInputs ==
    [manager : ManagerInputs, packagePath : PathInputs,
     dependencyType : DependencyTypeInputs]

CmdInit ==
    /\ LinkInit
    /\ cmdIn \in CmdInputs
    /\ cmdOut = NoCmdOut
    /\ StoreInit
    /\ CallerInit
    /\ ServiceInit

ApplyCreateLinkCommand ==
    /\ cmdOut = NoCmdOut
    /\ cmdOut' = [fn |-> "createLinkCommand",
                  out |-> Return(Str(createLinkCommand(cmdIn.manager,
                                                       cmdIn.packagePath)))]
    /\ UNCHANGED <<cmdIn, linkVars, storeVars, callerVars, serviceVars>>

ApplyGetAddCommand ==
    /\ cmdOut = NoCmdOut
    /\ cmdOut' = [fn |-> "getAddCommand",
                  out |-> getAddCommand(cmdIn.manager, cmdIn.packagePath,
                                        cmdIn.dependencyType)]
    /\ UNCHANGED <<cmdIn, linkVars, storeVars, callerVars, serviceVars>>

ApplyNormalizeDependencyType ==
    /\ cmdOut = NoCmdOut
    /\ cmdOut' = [fn |-> "normalizeDependencyType",
                  out |-> Return(Str(normalizeDependencyType(
                                         cmdIn.dependencyType)))]
    /\ UNCHANGED <<cmdIn, linkVars, storeVars, callerVars, serviceVars>>

CmdNext ==
    \/ ApplyCreateLinkCommand
    \/ ApplyGetAddCommand
    \/ ApplyNormalizeDependencyType

SpecCmd == CmdInit /\ [][CmdNext]_vars

(***************************************************************************)
(* Vocabulary of the properties                                            *)
(***************************************************************************)
\* the command tables as the specification prints them
SpecLinkTable ==
    [npm |-> "npm link", yarn |-> "yarn link", pnpm |-> "pnpm link",
     bun |-> "bun link"]

SpecAddTable ==
    [npm  |-> [prod |-> "npm install --save", dev |-> "npm install --save-dev",
               peer |-> "npm install --save-peer",
               optional |-> "npm install --save-optional"],
     yarn |-> [prod |-> "yarn add", dev |-> "yarn add --dev",
               peer |-> "yarn add --peer", optional |-> "yarn add --optional"],
     pnpm |-> [prod |-> "pnpm add --save", dev |-> "pnpm add --save-dev",
               peer |-> "pnpm add --save-peer",
               optional |-> "pnpm add --save-optional"],
     bun  |-> [prod |-> "bun install", dev |-> "bun install --dev",
               peer |-> "bun install --peer", optional |-> "bun install"]]

\* the canonical type the specification assigns to a spelling
SpecCanonicalType(v) ==
    IF v = UNDEFINED THEN "prod"
    ELSE LET spelling == toLowerCase(v.message)
         IN  CASE spelling \in {"dev", "devdependencies"} -> "dev"
               [] spelling \in {"peer", "peerdependencies"} -> "peer"
               [] spelling \in {"optional", "optionaldependencies"} ->
                     "optional"
               [] OTHER -> "prod"

\* the manager the specification selects for a detector outcome
SpecManager(o) ==
    IF o.threw \/ o.isNull \/ o.name.kind # "string" THEN "npm"
    ELSE IF o.name.message \in KnownManagers THEN o.name.message
    ELSE "npm"

\* the text begins with the prefix
startsWith(s, prefix) ==
    /\ Len(prefix) <= Len(s)
    /\ SubSeq(s, 1, Len(prefix)) = prefix

IsLinkCommand(c) ==
    \E m \in KnownManagers : startsWith(c, SpecLinkTable[m] \o " ")

IsAddCommand(c) ==
    \E m \in KnownManagers : \E t \in CanonicalTypes :
        startsWith(c, SpecAddTable[m][t] \o " ")

ExecSucceeded(o) == ~o.threw /\ o.error = NULL
ExecFailed(o) == ~ExecSucceeded(o)

ContainsWorkspace(text) == includes(toLowerCase(text), "workspace")

\* a failed execution whose error message mentions workspace
WorkspaceFailure(o) ==
    /\ ExecFailed(o)
    /\ IF o.threw THEN o.val.kind = "Error" /\ ContainsWorkspace(o.val.message)
       ELSE ContainsWorkspace(o.stdout) \/ ContainsWorkspace(o.stderr)

LinkSettled == Len(execs) >= 1
AddSettled == Len(execs) = 2

(***************************************************************************)
(* Properties of npmLink                                                   *)
(***************************************************************************)
\* C1: npmLink never throws or rejects: whatever the filesystem reads, the
\* detector and the command executions return or raise, a finished
\* invocation has returned a LinkResult.
C1_NeverRejects ==
    /\ pc # "rejected"
    /\ rejection = UNDEFINED
    /\ pc = "returned" => result.success \in BOOLEAN /\ result.message # ""

\* an invocation in which the detector rejected and the add command raised
C1_Witness ==
    /\ pc = "returned"
    /\ Len(detections) = 1 /\ detections[1].threw
    /\ AddSettled /\ execs[2].threw
    /\ ~result.success

\* C2: an invocation issues at most two commands; the add command is issued
\* at most once, as the second command, only after the link command failed
\* with a workspace-classified error; a failed add command ends the
\* invocation with success=false and no further command.
C2_SingleFallback ==
    /\ Len(cmds) <= 2
    /\ Cardinality({i \in 1..Len(cmds) : IsAddCommand(cmds[i].command)}) <= 1
    /\ \A i \in 1..Len(cmds) :
          IsAddCommand(cmds[i].command) =>
              /\ i = 2
              /\ IsLinkCommand(cmds[1].command)
              /\ LinkSettled
              /\ WorkspaceFailure(execs[1])
    /\ (AddSettled /\ ExecFailed(execs[2])) =>
          /\ pc = "returned"
          /\ ~result.success
          /\ Len(cmds) = 2

\* the add command failed after the fallback
C2_Witness ==
    /\ AddSettled
    /\ ExecFailed(execs[2])
    /\ IsAddCommand(cmds[2].command)
    /\ pc = "returned"

\* C3: with validation passed and a link command that fails with stderr
\* containing ERR_PNPM_WORKSPACE_PKG_NOT_FOUND, exactly two commands are
\* issued: the link command, then the add command of the same manager for
\* the normalized dependency type; when the add command succeeds the result
\* is success=true, "Successfully added ... (fallback from link)".
C3_FallbackOnPnpmToken ==
    (/\ validated = "passed"
     /\ LinkSettled
     /\ ~execs[1].threw
     /\ execs[1].error # NULL
     /\ includes(execs[1].stderr, "ERR_PNPM_WORKSPACE_PKG_NOT_FOUND"))
    => LET manager == SpecManager(detections[1])
           type == SpecCanonicalType(req.dependencyType)
       IN  /\ Len(cmds) = 2
           /\ cmds[1] = [command |-> SpecLinkTable[manager] \o " "
                                     \o req.packagePath,
                         cwd |-> req.projectPath]
           /\ cmds[2] = [command |-> SpecAddTable[manager][type] \o " "
                                     \o req.packagePath,
                         cwd |-> req.projectPath]
           /\ (AddSettled /\ ExecSucceeded(execs[2])) =>
                 /\ pc = "returned"
                 /\ result.success
                 /\ includes(result.message, "Successfully added")
                 /\ includes(result.message, "fallback from link")

\* pnpm, peerDependencies: link failed with the token, add succeeded
C3_Witness ==
    /\ pc = "returned"
    /\ result.success
    /\ AddSettled
    /\ execs[1].stderr = "ERR_PNPM_WORKSPACE_PKG_NOT_FOUND"
    /\ execs[1].stdout = ""
    /\ packageManager = "pnpm"
    /\ req.dependencyType = Str("peerDependencies")
    /\ cmds[2].command = "pnpm add --save-peer /pkg"

\* C4: with validation passed and a link command that fails with an error
\* that is not workspace-related, exactly one command is issued, it is not
\* an add command, and the result is success=false with a message starting
\* "Failed to create link".
C4_NonWorkspaceFailure ==
    (/\ validated = "passed"
     /\ LinkSettled
     /\ ExecFailed(execs[1])
     /\ ~WorkspaceFailure(execs[1]))
    => /\ Len(cmds) = 1
       /\ Len(execs) = 1
       /\ IsLinkCommand(cmds[1].command)
       /\ ~IsAddCommand(cmds[1].command)
       /\ pc = "returned"
       /\ ~result.success
       /\ startsWith(result.message, "Failed to create link")

\* the link command failed with "Some other error"
C4_Witness ==
    /\ pc = "returned"
    /\ Len(execs) = 1
    /\ execs[1].stderr = "Some other error"
    /\ execs[1].stdout = ""
    /\ result.message
         = "Failed to create link: Command execution failed: \nSome other error"

\* C5: validation precedes everything else: while validation is pending or
\* once it has failed, the detector has not been consulted and no command
\* has been executed; a failed validation ends the invocation with
\* success=false.
C5_ValidationFirst ==
    /\ validated # "passed" => detectCalls = <<>> /\ cmds = <<>>
    /\ validated = "failed" =>
          /\ pc = "returned"
          /\ ~result.success
          /\ detections = <<>>
          /\ execs = <<>>

\* validation failed on a mismatched manifest name
C5_Witness ==
    /\ validated = "failed"
    /\ pc = "returned"
    /\ includes(result.message, "does not match")

\* C6 as stated: a failed link command is classified as workspace-related
\* (the add command is issued) if and only if its stderr contains,
\* case-insensitively, "workspace" or ERR_PNPM_WORKSPACE_PKG_NOT_FOUND; every
\* other link failure is returned at once as the final failure.
C6_StderrDecides ==
    (LinkSettled /\ ~execs[1].threw /\ execs[1].error # NULL)
    => LET stderr == toLowerCase(execs[1].stderr)
           workspace ==
               \/ includes(stderr, "workspace")
               \/ includes(stderr,
                           toLowerCase("ERR_PNPM_WORKSPACE_PKG_NOT_FOUND"))
       IN  /\ workspace <=> Len(cmds) = 2
           /\ ~workspace =>
                 /\ pc = "returned"
                 /\ ~result.success
                 /\ Len(cmds) = 1

\* C6 amended: a failed link command is classified as workspace-related (the
\* add command is issued) if and only if its captured stdout or its captured
\* stderr contains, case-insensitively, "workspace" or
\* ERR_PNPM_WORKSPACE_PKG_NOT_FOUND; every other link failure is returned at
\* once as the final failure.
C6_OutputDecides ==
    (LinkSettled /\ ~execs[1].threw /\ execs[1].error # NULL)
    => LET stdout == toLowerCase(execs[1].stdout)
           stderr == toLowerCase(execs[1].stderr)
           token == toLowerCase("ERR_PNPM_WORKSPACE_PKG_NOT_FOUND")
           workspace ==
               \/ includes(stdout, "workspace") \/ includes(stdout, token)
               \/ includes(stderr, "workspace") \/ includes(stderr, token)
       IN  /\ workspace <=> Len(cmds) = 2
           /\ ~workspace =>
                 /\ pc = "returned"
                 /\ ~result.success
                 /\ Len(cmds) = 1

\* the link command failed with "workspace" on stdout only and the add
\* command was issued
C6_Witness ==
    /\ LinkSettled
    /\ execs[1].error # NULL
    /\ execs[1].stdout = "Scope: all 2 workspace projects\n"
    /\ execs[1].stderr = "Some other error"
    /\ Len(cmds) = 2
    /\ IsAddCommand(cmds[2].command)

\* C7: when detection rejects (with an Error or another value), returns null
\* or returns a null name, the invocation goes on with npm; when the link
\* command then succeeds, exactly one command was executed, the npm link
\* template, and the invocation succeeded.
C7_DetectionDegrades ==
    (/\ Len(detections) = 1
     /\ \/ detections[1].threw
        \/ detections[1].isNull
        \/ detections[1].name = NULL)
    => /\ packageManager = "npm"
       /\ Len(cmds) >= 1
       /\ cmds[1] = [command |-> "npm link " \o req.packagePath,
                     cwd |-> req.projectPath]
       /\ (LinkSettled /\ ExecSucceeded(execs[1])) =>
             /\ Len(cmds) = 1
             /\ pc = "returned"
             /\ result.success

\* the detector rejected with a non-Error value and the link succeeded
C7_Witness ==
    /\ Len(detections) = 1
    /\ detections[1].threw
    /\ detections[1].val = Str("String error")
    /\ LinkSettled /\ ExecSucceeded(execs[1])
    /\ pc = "returned"
    /\ cmds = <<[command |-> "npm link /pkg", cwd |-> "/proj"]>>

(***************************************************************************)
(* Properties of the command selector                                      *)
(***************************************************************************)
\* C8: createLinkCommand and getAddCommand are total: for every manager name
\* (any string outside npm, yarn, pnpm, bun included) and every
\* dependency-type input they return a command without raising, and for a
\* manager name outside the four they return the npm row's command.
C8_SelectorsTotal ==
    /\ cmdOut.fn = "createLinkCommand" =>
          /\ ~cmdOut.out.threw
          /\ cmdIn.manager \notin KnownManagers =>
                cmdOut.out.val
                  = Str(SpecLinkTable["npm"] \o " " \o cmdIn.packagePath)
    /\ cmdOut.fn = "getAddCommand" =>
          /\ ~cmdOut.out.threw
          /\ cmdIn.manager \notin KnownManagers =>
                cmdOut.out.val
                  = Str(SpecAddTable["npm"][
                            SpecCanonicalType(cmdIn.dependencyType)]
                        \o " " \o cmdIn.packagePath)

\* C9: for each of the four managers and each canonical dependency type the
\* link command and the add command equal the entry of the specification's
\* table followed by the package path, verbatim.
C9_CommandTable ==
    (/\ cmdIn.manager \in KnownManagers
     /\ cmdIn.dependencyType \in {Str(t) : t \in CanonicalTypes})
    => /\ cmdOut.fn = "createLinkCommand" =>
             cmdOut.out
               = Return(Str(SpecLinkTable[cmdIn.manager] \o " "
                            \o cmdIn.packagePath))
       /\ cmdOut.fn = "getAddCommand" =>
             cmdOut.out
               = Return(Str(SpecAddTable[cmdIn.manager][
                                cmdIn.dependencyType.message]
                            \o " " \o cmdIn.packagePath))

\* bun has no flag for optional dependencies; the path keeps its space
C9_Witness ==
    /\ cmdOut.fn = "getAddCommand"
    /\ cmdIn.manager = "bun"
    /\ cmdIn.dependencyType = Str("optional")
    /\ cmdOut.out = Return(Str("bun install /path/to/my package"))

\* C10: normalization yields one of prod, dev, peer, optional; a canonical
\* value is returned unchanged; dev/devDependencies, peer/peerDependencies
\* and optional/optionalDependencies are matched whatever their case; every
\* other input, an absent one included, yields prod.
C10_Normalization ==
    cmdOut.fn = "normalizeDependencyType"
    => LET given == cmdIn.dependencyType
           out == cmdOut.out.val.message
           spelling == toLowerCase(given.message)
       IN  /\ ~cmdOut.out.threw
           /\ out \in CanonicalTypes
           /\ given \in {Str(t) : t \in CanonicalTypes} => out = given.message
           /\ (given # UNDEFINED
               /\ spelling \in {"dev", "devdependencies"}) => out = "dev"
           /\ (given # UNDEFINED
               /\ spelling \in {"peer", "peerdependencies"}) => out = "peer"
           /\ (given # UNDEFINED
               /\ spelling \in {"optional", "optionaldependencies"}) =>
                 out = "optional"
           /\ (given = UNDEFINED
               \/ spelling \notin {"dev", "devdependencies", "peer",
                                   "peerdependencies", "optional",
                                   "optionaldependencies"}) => out = "prod"
           /\ given = Str("PEERDEPENDENCIES") => out = "peer"
           /\ given = Str("DevDependencies") => out = "dev"
           /\ given = Str(" dev") => out = "prod"

\* an upper-case spelling was normalized
C10_Witness ==
    /\ cmdOut.fn = "normalizeDependencyType"
    /\ cmdIn.dependencyType = Str("PEERDEPENDENCIES")
    /\ cmdOut.out = Return(Str("peer"))

(***************************************************************************)
(* Two invocations of npmLink in flight                                    *)
(*                                                                         *)
(* Every await of npmLink hands control back to the event loop, which may  *)
(* run the continuation of another invocation next.  The variables of      *)
(* invocationVars are the locals of the invocation whose continuation runs *)
(* next; other holds the locals of the second invocation.                  *)
(***************************************************************************)
Invocation ==
    [pc |-> pc, req |-> req, packageManager |-> packageManager,
     cmds |-> cmds, detectCalls |-> detectCalls, execs |-> execs,
     detections |-> detections, validated |-> validated, logs |-> logs,
     result |-> result, rejection |-> rejection, stats |-> stats,
     reads |-> reads]

\* the event loop that keeps one packageManager for both invocations
SwitchSharedManager ==
    /\ Invocation # other
    /\ pc' = other.pc
    /\ req' = other.req
    /\ UNCHANGED packageManager
    /\ cmds' = other.cmds
    /\ detectCalls' = other.detectCalls
    /\ execs' = other.execs
    /\ detections' = other.detections
    /\ validated' = other.validated
    /\ logs' = other.logs
    /\ result' = other.result
    /\ rejection' = other.rejection
    /\ stats' = other.stats
    /\ reads' = other.reads
    /\ other' = Invocation
    /\ UNCHANGED <<calls, sink, cmdVars, storeVars, callerVars, serviceVars>>

\* the event loop turns to the other invocation
Switch ==
    /\ Invocation # other
    /\ pc' = other.pc
    /\ req' = other.req
    /\ packageManager' = other.packageManager
    /\ cmds' = other.cmds
    /\ detectCalls' = other.detectCalls
    /\ execs' = other.execs
    /\ detections' = other.detections
    /\ validated' = other.validated
    /\ logs' = other.logs
    /\ result' = other.result
    /\ rejection' = other.rejection
    /\ stats' = other.stats
    /\ reads' = other.reads
    /\ other' = Invocation
    /\ UNCHANGED <<calls, sink, cmdVars, storeVars, callerVars, serviceVars>>

\* two callers linking two different packages, and the outcomes they meet
ParLinkOptions ==
    {[packagePath |-> "/pkg", projectPath |-> "/proj", packageName |-> "foo",
      dependencyType |-> UNDEFINED],
     [packagePath |-> "/lib", projectPath |-> "/app", packageName |-> "bar",
      dependencyType |-> Str("dev")]}

ParStatOutcomes ==
    {o \in StatOutcomes : ~o.threw \/ o.val.kind = "Error"}

ParReadOutcomes ==
    {o \in ReadOutcomes : o.json = "object" /\ Truthy(o.name)}

ParDetectOutcomes ==
    {o \in DetectOutcomes :
        ~o.threw /\ ~o.isNull /\ o.name \in {Str("yarn"), Str("pnpm")}}

ParExecOutcomes ==
    {o \in ExecOutcomes :
        /\ ~o.threw
        /\ o.stdout \in {"ok", ""}
        /\ o.stderr \in {"", "Some other error", "No WorkSpace found"}
        /\ o.error \in {NULL, Str("Command failed")}}

ParNext ==
    \/ Switch
    \/ \E options \in ParLinkOptions : npmLink(options)
    \/ \E o \in ParStatOutcomes : validatePackageStatPath(o)
    \/ \E o \in ParStatOutcomes : validatePackageStatJson(o)
    \/ \E o \in ParReadOutcomes : validatePackageReadJson(o)
    \/ \E o \in ParDetectOutcomes : detectPackageManager(o)
    \/ \E o \in ParExecOutcomes : executeLinkWithFallbackLink(o)
    \/ \E o \in ParExecOutcomes : executeLinkWithFallbackAdd(o)

SpecPar == Init /\ [][ParNext]_vars

(***************************************************************************)
(* npmLink with a log sink that fails                                      *)
(*                                                                         *)
(* logger.info and logger.error call channel.appendLine with no try/catch  *)
(* around it (logger.ts), and npm-link.ts calls the logger unguarded.  Once *)
(* the output channel is closed every logger call raises SinkError.        *)
(***************************************************************************)
SinkError == Err("Channel has been closed")

\* the output channel is closed while an invocation may be in flight
BreakSink ==
    /\ sink = "ok"
    /\ sink' = "broken"
    /\ UNCHANGED <<invocationVars, calls, other, cmdVars, storeVars,
                   callerVars, serviceVars>>

\* detect() settles; the first logger call after it raises: logger.error in
\* the catch clause of detectPackageManager, or logger.info at the head of
\* executeLinkWithFallback; the exception reaches the catch of npmLink
detectPackageManagerSinkFails(o) ==
    /\ pc = "detect"
    /\ sink = "broken"
    /\ detections' = Append(detections, o)
    /\ packageManager' = detectPackageManagerName(o)
    /\ npmLinkCatch(SinkError)
    /\ UNCHANGED <<req, cmds, detectCalls, execs, validated, logs, stats,
                   reads, calls, otherVars>>

\* the link command settles; a logger call in the cp.exec callback raises
\* before resolve or reject is reached and the promise stays pending, or
\* cp.exec threw and the logger.info of the fallback branch raises
executeLinkWithFallbackLinkSinkFails(o) ==
    /\ pc = "link"
    /\ sink = "broken"
    /\ execs' = Append(execs, o)
    /\ LET settled == executeCommand(o)
           linkError == settled.val
       IN  IF executeCommandLogs(o) # <<>>
           THEN /\ pc' = "hung"
                /\ UNCHANGED <<result, rejection>>
           ELSE IF ~settled.threw
           THEN Returned(
                    [message |-> "Successfully linked " \o req.packageName
                                 \o " from " \o req.packagePath
                                 \o " to project at " \o req.projectPath
                                 \o "\n" \o settled.val.message,
                     error |-> UNDEFINED,
                     success |-> TRUE])
           ELSE IF InstanceOfError(linkError) /\ isWorkspaceError(linkError)
           THEN npmLinkCatch(SinkError)
           ELSE npmLinkCatch(linkError)
    /\ UNCHANGED <<req, packageManager, cmds, detectCalls, detections,
                   validated, logs, stats, reads, calls, otherVars>>

\* the add command settles; a logger call in the cp.exec callback raises
executeLinkWithFallbackAddSinkFails(o) ==
    /\ pc = "add"
    /\ sink = "broken"
    /\ execs' = Append(execs, o)
    /\ LET settled == executeCommand(o)
       IN  IF executeCommandLogs(o) # <<>>
           THEN /\ pc' = "hung"
                /\ UNCHANGED <<result, rejection>>
           ELSE IF ~settled.threw
           THEN Returned(
                    [message |-> "Successfully added " \o req.packageName
                                 \o " from " \o req.packagePath
                                 \o " to project at " \o req.projectPath
                                 \o " (fallback from link)\n"
                                 \o settled.val.message,
                     error |-> UNDEFINED,
                     success |-> TRUE])
           ELSE npmLinkCatch(settled.val)
    /\ UNCHANGED <<req, packageManager, cmds, detectCalls, detections,
                   validated, logs, stats, reads, calls, otherVars>>

LogNext ==
    \/ BreakSink
    \/ \E options \in ParLinkOptions : npmLink(options)
    \/ \E o \in ParStatOutcomes : validatePackageStatPath(o)
    \/ \E o \in ParStatOutcomes : validatePackageStatJson(o)
    \/ \E o \in ParReadOutcomes : validatePackageReadJson(o)
    \/ \E o \in ParDetectOutcomes : detectPackageManager(o)
    \/ \E o \in ParDetectOutcomes : detectPackageManagerSinkFails(o)
    \/ \E o \in ParExecOutcomes : executeLinkWithFallbackLink(o)
    \/ \E o \in ParExecOutcomes : executeLinkWithFallbackLinkSinkFails(o)
    \/ \E o \in ParExecOutcomes : executeLinkWithFallbackAdd(o)
    \/ \E o \in ParExecOutcomes : executeLinkWithFallbackAddSinkFails(o)

SpecLog == Init /\ [][LogNext]_vars

(***************************************************************************)
(* The storage service on its own: any sequence of saves and removals      *)
(***************************************************************************)
StoreNext ==
    \/ \E packageInfo \in LinkedPackage : saveLinkedPackage(packageInfo)
    \/ \E packageName \in StoreNames : removeLinkedPackage(packageName)

SpecStore == Init /\ [][StoreNext]_vars

(***************************************************************************)
(* The linkify.linkPackage command handler                                 *)
(* (src/extension/commands/link-package.ts)                                *)
(*                                                                         *)
(* handler holds the locals of handleLinkPackage and what it has done: the *)
(* argument lists it called npmLink with, the records it handed to         *)
(* saveLinkedPackage and the messages it showed.  npmLink and the storage  *)
(* service are collaborators here: their outcomes are inputs.  A null      *)
(* path is kept as the empty string, which the code treats the same way.   *)
(***************************************************************************)
HandlerArguments ==
    [name : {"foo", "bar"}, type : {"dependencies", "devDependencies"},
     version : {"1.0.0"}]

\* getLinkedPackage(packageName): nothing, or the record of that name
SavedPackages(packageName) ==
    {NoPackage,
     [packageName |-> packageName, localPath |-> "/saved",
      linkedAt |-> "2025-03-30T10:00:00.000Z"]}

\* showQuickPick: dismissed, or one of the two items
QuickPickOutcomes ==
    {[picked |-> FALSE, value |-> ""],
     [picked |-> TRUE, value |-> "saved"],
     [picked |-> TRUE, value |-> "new"]}

\* showOpenDialog: dismissed, or the fsPath of each selected Uri
DialogOutcomes ==
    {[cancelled |-> TRUE, uris |-> <<>>],
     [cancelled |-> FALSE, uris |-> <<>>],
     [cancelled |-> FALSE, uris |-> <<UNDEFINED>>],
     [cancelled |-> FALSE, uris |-> <<NULL>>],
     [cancelled |-> FALSE, uris |-> <<Str("/new")>>]}

\* vscode.workspace.workspaceFolders: undefined, or the fsPath of each folder
WorkspaceOutcomes ==
    {[defined |-> FALSE, folders |-> <<>>],
     [defined |-> TRUE, folders |-> <<>>],
     [defined |-> TRUE, folders |-> <<UNDEFINED>>],
     [defined |-> TRUE, folders |-> <<Str("/ws")>>],
     [defined |-> TRUE, folders |-> <<Str("/ws"), Str("/other")>>]}

\* how the promise of npmLink settles for the handler
NpmLinkOutcomes ==
    {[threw |-> FALSE, val |-> UNDEFINED,
      result |-> [success |-> TRUE, message |-> "Package linked successfully",
                  error |-> UNDEFINED]],
     [threw |-> FALSE, val |-> UNDEFINED,
      result |-> [success |-> FALSE, message |-> "Failed to link package",
                  error |-> UNDEFINED]],
     [threw |-> TRUE, val |-> Err("Mock error"), result |-> NoResult],
     [threw |-> TRUE, val |-> Str("Mock error"), result |-> NoResult]}

\* how the promise of saveLinkedPackage settles
SaveOutcomes ==
    {Return(UNDEFINED), Throw(Err("Save error")), Throw(Str("Save error"))}

\* new Date().toISOString() at the time of the save
SaveDates == {"2025-03-30T11:00:00.000Z"}

\* selectPackagePath on the outcome of showOpenDialog
selectPackagePath(o) ==
    IF o.cancelled \/ Len(o.uris) = 0 THEN ""
    ELSE IF o.uris[1].kind = "string" THEN o.uris[1].message
    ELSE ""

\* the options npmLink destructures from the arguments it is called with
\* (npm-link.ts): a string argument has none of the four properties
npmLinkOptions(arguments) ==
    IF Len(arguments) >= 1 /\ arguments[1].kind # "string"
    THEN [packagePath |-> arguments[1], projectPath |-> arguments[1],
          packageName |-> arguments[1], dependencyType |-> arguments[1]]
    ELSE [packagePath |-> UNDEFINED, projectPath |-> UNDEFINED,
          packageName |-> UNDEFINED, dependencyType |-> UNDEFINED]

\* handleLinkPackage that calls npmLink before looking at the workspace
withPackagePathNoWorkspaceCheck(h, packagePath, w) ==
    IF packagePath = ""
    THEN [h EXCEPT !.pc = "done"]
    ELSE LET projectPath ==
                 IF w.defined /\ Len(w.folders) > 0
                    /\ w.folders[1].kind = "string"
                 THEN w.folders[1].message ELSE ""
         IN  [h EXCEPT
                 !.pc = "linking",
                 !.workspaces = Append(@, w),
                 !.packagePath = packagePath,
                 !.projectPath = projectPath,
                 !.npmLinkCalls =
                     Append(@, <<Str(packagePath), Str(projectPath),
                                 Str(h.arguments.name)>>)]

\* handleLinkPackage from the test of packagePath to the call of npmLink
withPackagePath(h, packagePath, w) ==
    IF packagePath = ""
    THEN [h EXCEPT !.pc = "done"]
    ELSE IF ~w.defined \/ Len(w.folders) = 0
    THEN [h EXCEPT !.pc = "errorShown",
                   !.workspaces = Append(@, w),
                   !.packagePath = packagePath,
                   !.errorMessages = Append(@, "No workspace folder is open")]
    ELSE IF ~Truthy(w.folders[1])
    THEN [h EXCEPT !.pc = "errorShown",
                   !.workspaces = Append(@, w),
                   !.packagePath = packagePath,
                   !.errorMessages =
                       Append(@, "Could not determine workspace path")]
    ELSE [h EXCEPT
             !.pc = "linking",
             !.workspaces = Append(@, w),
             !.packagePath = packagePath,
             !.projectPath = w.folders[1].message,
             !.npmLinkCalls =
                 Append(@, <<Str(packagePath), Str(w.folders[1].message),
                             Str(h.arguments.name)>>)]

\* the command is run: the saved package is looked up
handleLinkPackage(arguments_, savedPackage) ==
    /\ handler.pc \in {"idle", "done"}
    /\ handler' = [IdleHandler EXCEPT
                      !.pc = IF savedPackage # NoPackage
                             THEN "quickPick" ELSE "openDialog",
                      !.arguments = arguments_,
                      !.savedPackage = savedPackage]
    /\ UNCHANGED <<linkVars, cmdVars, storeVars, simple, serviceVars>>

\* showQuickPick settles
handleLinkPackageChoice(choice, w) ==
    /\ handler.pc = "quickPick"
    /\ LET h == [handler EXCEPT !.choices = Append(@, choice)]
       IN  handler' =
              IF ~choice.picked THEN [h EXCEPT !.pc = "done"]
              ELSE IF choice.value = "new"
              THEN [h EXCEPT !.pc = "openDialog"]
              ELSE withPackagePath(h, h.savedPackage.localPath, w)
    /\ UNCHANGED <<linkVars, cmdVars, storeVars, simple, serviceVars>>

\* showOpenDialog settles
handleLinkPackageDialog(o, w) ==
    /\ handler.pc = "openDialog"
    /\ handler' = withPackagePath([handler EXCEPT !.dialogs = Append(@, o)],
                                  selectPackagePath(o), w)
    /\ UNCHANGED <<linkVars, cmdVars, storeVars, simple, serviceVars>>

\* the awaited showErrorMessage of the workspace checks settles
handleLinkPackageDismissed ==
    /\ handler.pc = "errorShown"
    /\ handler' = [handler EXCEPT !.pc = "done"]
    /\ UNCHANGED <<linkVars, cmdVars, storeVars, simple, serviceVars>>

\* the handler that saves the record whatever npmLink returned
handleLinkPackageLinkedAlwaysSaves(o, linkedAt) ==
    /\ handler.pc = "linking"
    /\ handler' =
          IF o.threw
          THEN [handler EXCEPT
                   !.linked = Append(@, o),
                   !.pc = "done",
                   !.errorMessages =
                       Append(@, "Error linking package: "
                                 \o ErrorText(o.val))]
          ELSE [handler EXCEPT
                   !.linked = Append(@, o),
                   !.pc = "saving",
                   !.result = o.result,
                   !.saveCalls =
                       Append(@, [linkedAt |-> linkedAt,
                                  localPath |-> handler.packagePath,
                                  packageName |-> handler.arguments.name])]
    /\ UNCHANGED <<linkVars, cmdVars, storeVars, simple, serviceVars>>

\* the handler whose catch clause lets the rejection of npmLink through
handleLinkPackageLinkedRethrows(o, linkedAt) ==
    /\ handler.pc = "linking"
    /\ handler' =
          IF o.threw
          THEN [handler EXCEPT !.linked = Append(@, o), !.pc = "rejected"]
          ELSE IF o.result.success
          THEN [handler EXCEPT
                   !.linked = Append(@, o),
                   !.pc = "saving",
                   !.result = o.result,
                   !.saveCalls =
                       Append(@, [linkedAt |-> linkedAt,
                                  localPath |-> handler.packagePath,
                                  packageName |-> handler.arguments.name])]
          ELSE [handler EXCEPT
                   !.linked = Append(@, o),
                   !.pc = "done",
                   !.result = o.result,
                   !.errorMessages = Append(@, o.result.message)]
    /\ UNCHANGED <<linkVars, cmdVars, storeVars, simple, serviceVars>>

\* npmLink settles
handleLinkPackageLinked(o, linkedAt) ==
    /\ handler.pc = "linking"
    /\ handler' =
          IF o.threw
          THEN [handler EXCEPT
                   !.linked = Append(@, o),
                   !.pc = "done",
                   !.errorMessages =
                       Append(@, "Error linking package: "
                                 \o ErrorText(o.val))]
          ELSE IF o.result.success
          THEN [handler EXCEPT
                   !.linked = Append(@, o),
                   !.pc = "saving",
                   !.result = o.result,
                   !.saveCalls =
                       Append(@, [linkedAt |-> linkedAt,
                                  localPath |-> handler.packagePath,
                                  packageName |-> handler.arguments.name])]
          ELSE [handler EXCEPT
                   !.linked = Append(@, o),
                   !.pc = "done",
                   !.result = o.result,
                   !.errorMessages = Append(@, o.result.message)]
    /\ UNCHANGED <<linkVars, cmdVars, storeVars, simple, serviceVars>>

\* saveLinkedPackage settles
handleLinkPackageSaved(o) ==
    /\ handler.pc = "saving"
    /\ handler' =
          IF o.threw
          THEN [handler EXCEPT
                   !.saved = Append(@, o),
                   !.pc = "done",
                   !.errorMessages =
                       Append(@, "Error saving package link: "
                                 \o ErrorText(o.val))]
          ELSE [handler EXCEPT
                   !.saved = Append(@, o),
                   !.pc = "done",
                   !.informationMessages = Append(@, handler.result.message)]
    /\ UNCHANGED <<linkVars, cmdVars, storeVars, simple, serviceVars>>

HandlerNext ==
    \/ \E arguments_ \in HandlerArguments :
          \E savedPackage \in SavedPackages(arguments_.name) :
              handleLinkPackage(arguments_, savedPackage)
    \/ \E choice \in QuickPickOutcomes : \E w \in WorkspaceOutcomes :
          handleLinkPackageChoice(choice, w)
    \/ \E o \in DialogOutcomes : \E w \in WorkspaceOutcomes :
          handleLinkPackageDialog(o, w)
    \/ handleLinkPackageDismissed
    \/ \E o \in NpmLinkOutcomes : \E linkedAt \in SaveDates :
          handleLinkPackageLinked(o, linkedAt)
    \/ \E o \in SaveOutcomes : handleLinkPackageSaved(o)

SpecHandler == Init /\ [][HandlerNext]_vars

(***************************************************************************)
(* Properties of validation and of the composed result                     *)
(***************************************************************************)
StatRejected(i) == Len(stats) >= i /\ stats[i].threw
StatResolved(i) == Len(stats) >= i /\ ~stats[i].threw
ManifestRead == Len(reads) = 1 /\ ~reads[1].threw

\* every check of spec 4.1 passes on the recorded filesystem outcomes
AllChecksPass ==
    /\ StatResolved(1) /\ stats[1].isDirectory
    /\ StatResolved(2) /\ stats[2].isFile
    /\ ManifestRead
    /\ reads[1].json = "object"
    /\ reads[1].name.kind = "string"
    /\ reads[1].name.message = req.packageName

\* a filesystem call rejected or the manifest could not be used as an object
ValidationCaught ==
    \/ StatRejected(1)
    \/ StatRejected(2)
    \/ Len(reads) = 1 /\ (reads[1].threw \/ reads[1].json \in {"invalid", "null"})

\* the Error executeCommand rejects with
SpecExecError(o) ==
    IF o.threw THEN o.val
    ELSE Err("Command execution failed: " \o o.stdout \o "\n" \o o.stderr)

C13_ResultShape ==
    pc = "returned"
    => /\ result.message # ""
       /\ result.success => result.error = UNDEFINED
       /\ result.error # UNDEFINED =>
             /\ ~result.success
             /\ \/ validated = "failed" /\ ValidationCaught
                \/ /\ validated = "passed"
                   /\ LinkSettled
                   /\ ExecFailed(execs[Len(execs)])
       /\ (validated = "failed" /\ ~ValidationCaught) =>
             result.error = UNDEFINED

\* a rejected fs.stat was caught and attached as an Error
C13_Witness ==
    /\ pc = "returned"
    /\ validated = "failed"
    /\ StatRejected(1)
    /\ stats[1].val = Str("File not found")
    /\ result.error = Err("File not found")
    /\ ~result.success

\* C14 as stated: when validation passes and the link command succeeds with
\* output S, exactly one command is executed (the link command of the
\* detected manager, in projectPath), no add command, and the result is
\* success=true with message "Successfully linked <packageName> from
\* <packagePath> to project at <projectPath>\n" followed by S.
C14_LinkedMessageRaw ==
    (validated = "passed" /\ LinkSettled /\ ExecSucceeded(execs[1]))
    => /\ cmds = <<[command |-> SpecLinkTable[SpecManager(detections[1])]
                                \o " " \o req.packagePath,
                    cwd |-> req.projectPath]>>
       /\ pc = "returned"
       /\ result.success
       /\ result.message
            = "Successfully linked " \o req.packageName \o " from "
              \o req.packagePath \o " to project at " \o req.projectPath
              \o "\n" \o execs[1].stdout

\* C14 amended: as C14, with the message followed by S with its leading and
\* trailing white space removed.
C14_LinkedMessage ==
    (validated = "passed" /\ LinkSettled /\ ExecSucceeded(execs[1]))
    => /\ cmds = <<[command |-> SpecLinkTable[SpecManager(detections[1])]
                                \o " " \o req.packagePath,
                    cwd |-> req.projectPath]>>
       /\ pc = "returned"
       /\ result.success
       /\ result.message
            = "Successfully linked " \o req.packageName \o " from "
              \o req.packagePath \o " to project at " \o req.projectPath
              \o "\n" \o trim(execs[1].stdout)
       /\ (execs[1].stdout = "ok" /\ req.dependencyType = UNDEFINED
           /\ detections[1].name = Str("pnpm")) =>
             /\ result.message
                  = "Successfully linked foo from /pkg to project at /proj\nok"
             /\ cmds[1].command = "pnpm link /pkg"

\* the link command printed " linked\n"
C14_Witness ==
    /\ pc = "returned"
    /\ Len(execs) = 1
    /\ execs[1].stdout = " linked\n"
    /\ result.message
         = "Successfully linked foo from /pkg to project at /proj\nlinked"

\* C15: when the link command fails with a workspace error and the add
\* command fails too, the result is success=false after exactly two
\* commands, and its message "Failed to create link: <error message>" and
\* its error are those of the add command's failure.
C15_AddFailureReported ==
    (AddSettled /\ ExecFailed(execs[2]))
    => /\ pc = "returned"
       /\ Len(cmds) = 2
       /\ ~result.success
       /\ result.error = SpecExecError(execs[2])
       /\ result.message
            = "Failed to create link: " \o SpecExecError(execs[2]).message

\* link and add failed with different output
C15_Witness ==
    /\ pc = "returned"
    /\ AddSettled
    /\ execs[1].stderr = "ERR_PNPM_WORKSPACE_PKG_NOT_FOUND"
    /\ execs[2].stderr = "Some other error"
    /\ execs[1].stdout = "" /\ execs[2].stdout = ""
    /\ result.message
         = "Failed to create link: Command execution failed: \nSome other error"

\* C16: within one invocation the steps run in the order validate, detect,
\* link, add, each starting only after the previous one has completed: at
\* most one command is in flight, the detector is consulted only after
\* validation passed, the link command starts only after the detector
\* settled, and the add command starts only after the link command settled.
C16_StrictSequence ==
    /\ Len(execs) <= Len(cmds)
    /\ Len(cmds) <= Len(execs) + 1
    /\ Len(cmds) <= 2
    /\ Len(detections) <= Len(detectCalls)
    /\ validated = "pending" => detectCalls = <<>>
    /\ detectCalls # <<>> => validated = "passed" /\ AllChecksPass
    /\ cmds # <<>> =>
          /\ Len(detections) = 1
          /\ IsLinkCommand(cmds[1].command)
    /\ Len(cmds) = 2 =>
          /\ LinkSettled
          /\ ExecFailed(execs[1])
          /\ IsAddCommand(cmds[2].command)
    /\ pc = "returned" => Len(execs) = Len(cmds)

\* the add command is in flight after the link command settled
C16_Witness ==
    /\ pc = "add"
    /\ Len(cmds) = 2
    /\ Len(execs) = 1
    /\ IsAddCommand(cmds[2].command)

\* C17: in every invocation whose validation passes the detector is
\* consulted exactly once, with cwd = projectPath, and the manager it
\* yields is the one of the link command and of the add command; this holds
\* in a later invocation whatever an earlier invocation detected.
C17_DetectedOncePerInvocation ==
    /\ Len(detectCalls) <= 1
    /\ Len(detections) <= 1
    /\ validated = "passed" => detectCalls = <<req.projectPath>>
    /\ validated # "passed" => detectCalls = <<>>
    /\ cmds # <<>> =>
          /\ Len(detections) = 1
          /\ cmds[1].command
               = SpecLinkTable[SpecManager(detections[1])]
                 \o " " \o req.packagePath
    /\ Len(cmds) = 2 =>
          cmds[2].command
            = SpecAddTable[SpecManager(detections[1])]
                          [SpecCanonicalType(req.dependencyType)]
              \o " " \o req.packagePath

\* a second invocation consults the detector after an earlier invocation
\* detected yarn
C17_Witness ==
    /\ calls = 2
    /\ pc = "detect"
    /\ packageManager = "yarn"
    /\ detectCalls = <<"/proj">>
    /\ detections = <<>>

(***************************************************************************)
(* What an invocation does when it runs alone: its commands and its result *)
(* as functions of its request and of the outcomes it has met              *)
(***************************************************************************)
AloneCaught(v) ==
    [message |-> "Failed to create link: " \o v.message,
     error |-> Err(v.message),
     success |-> FALSE]

AloneCheckFailed(message) ==
    [message |-> message, error |-> UNDEFINED, success |-> FALSE]

\* the result of validation on the outcomes met so far; NoResult when no
\* check has failed
AloneValidation(i) ==
    CASE Len(i.stats) >= 1 /\ i.stats[1].threw -> AloneCaught(i.stats[1].val)
      [] Len(i.stats) >= 1 /\ ~i.stats[1].isDirectory ->
            AloneCheckFailed("Package directory does not exist: "
                             \o i.req.packagePath)
      [] Len(i.stats) >= 2 /\ i.stats[2].threw -> AloneCaught(i.stats[2].val)
      [] Len(i.stats) >= 2 /\ ~i.stats[2].isFile ->
            AloneCheckFailed("No package.json found in: "
                             \o i.req.packagePath)
      [] Len(i.reads) = 1 /\ i.reads[1].threw -> AloneCaught(i.reads[1].val)
      [] Len(i.reads) = 1 /\ i.reads[1].name.kind # "string" ->
            AloneCheckFailed("No package name found in package.json: "
                             \o i.req.packagePath \o "/package.json")
      [] Len(i.reads) = 1 /\ i.reads[1].name.message # i.req.packageName ->
            AloneCheckFailed("Package name in package.json ("
                             \o i.reads[1].name.message
                             \o ") does not match provided package name ("
                             \o i.req.packageName \o ")")
      [] OTHER -> NoResult

AloneCmds(i) ==
    IF i.detections = <<>> THEN <<>>
    ELSE LET manager == SpecManager(i.detections[1])
             type == SpecCanonicalType(i.req.dependencyType)
         IN  <<[command |-> SpecLinkTable[manager] \o " "
                            \o i.req.packagePath,
                cwd |-> i.req.projectPath]>>
             \o (IF Len(i.execs) >= 1 /\ WorkspaceFailure(i.execs[1])
                 THEN <<[command |-> SpecAddTable[manager][type] \o " "
                                     \o i.req.packagePath,
                         cwd |-> i.req.projectPath]>>
                 ELSE <<>>)

\* the invocation has met every outcome it waits for
AloneDone(i) ==
    /\ i.pc # "idle"
    /\ \/ AloneValidation(i) # NoResult
       \/ Len(i.execs) >= 1 /\ Len(i.execs) = Len(AloneCmds(i))

AloneResult(i) ==
    IF AloneValidation(i) # NoResult THEN AloneValidation(i)
    ELSE LET last == i.execs[Len(i.execs)]
         IN  IF ExecSucceeded(last)
             THEN [message |->
                      (IF Len(i.execs) = 1
                       THEN "Successfully linked " \o i.req.packageName
                            \o " from " \o i.req.packagePath
                            \o " to project at " \o i.req.projectPath
                       ELSE "Successfully added " \o i.req.packageName
                            \o " from " \o i.req.packagePath
                            \o " to project at " \o i.req.projectPath
                            \o " (fallback from link)")
                      \o "\n" \o trim(last.stdout),
                   error |-> UNDEFINED,
                   success |-> TRUE]
             ELSE [message |-> "Failed to create link: "
                               \o SpecExecError(last).message,
                   error |-> SpecExecError(last),
                   success |-> FALSE]

AsIfAlone(i) ==
    /\ i.pc # "rejected"
    /\ i.cmds = AloneCmds(i)
    /\ i.pc = "returned" <=> AloneDone(i)
    /\ i.pc = "returned" => i.result = AloneResult(i)

\* C18: with two invocations in flight and any interleaving of their
\* suspending steps, the commands and the result of each are those it
\* produces alone from its own request and the outcomes it met itself.
C18_Independent ==
    /\ AsIfAlone(Invocation)
    /\ AsIfAlone(other)

\* both invocations are waiting for a command, with different managers
C18_Witness ==
    /\ pc = "add"
    /\ other.pc = "link"
    /\ req.packageName # other.req.packageName
    /\ detections[1].name = Str("yarn")
    /\ other.detections[1].name = Str("pnpm")
    /\ cmds[2].command = "yarn add /pkg"
    /\ other.cmds = <<[command |-> "pnpm link /lib", cwd |-> "/app"]>>

\* C19 (refuted by the code): once the log sink fails, the invocation still
\* issues the commands and returns the result it produces with a working
\* sink from the same request and outcomes.
C19_SinkFailureHarmless ==
    sink = "broken" => AsIfAlone(Invocation)

(***************************************************************************)
(* Properties of the storage service                                       *)
(***************************************************************************)
\* C20: after any sequence of saveLinkedPackage and removeLinkedPackage
\* calls from empty storage, the stored list holds at most one entry per
\* package name, getLinkedPackage(n) is the entry saved last for n, and it
\* is undefined when n was never saved or was removed after its last save.
C20_LastWriteWins ==
    /\ \A i, j \in 1..Len(stored) :
          stored[i].packageName = stored[j].packageName => i = j
    /\ \A n \in StoreNames : getLinkedPackage(n) = lastSaved[n]
    /\ \A n \in StoreNames :
          lastSaved[n] = NoPackage
          <=> ~\E i \in 1..Len(stored) : stored[i].packageName = n

\* foo was saved before bar and holds its later path; baz is absent
C20_Witness ==
    /\ Len(stored) = 2
    /\ stored[1] = [packageName |-> "foo", localPath |-> "/b",
                    linkedAt |-> "2025-03-30T11:00:00.000Z"]
    /\ stored[2].packageName = "bar"
    /\ getLinkedPackage("foo").localPath = "/b"
    /\ getLinkedPackage("baz") = NoPackage

(***************************************************************************)
(* Properties of the command handler                                       *)
(***************************************************************************)
\* C21 (refuted by the code): every call of npmLink by the handler passes a
\* single request whose packagePath is the chosen path, projectPath the
\* path of the first workspace folder, packageName the name of the command
\* argument and dependencyType its type.
C21_RequestCarriesType ==
    \A i \in 1..Len(handler.npmLinkCalls) :
        /\ Len(handler.npmLinkCalls[i]) = 1
        /\ npmLinkOptions(handler.npmLinkCalls[i])
             = [packagePath |-> Str(handler.packagePath),
                projectPath |-> Str(handler.projectPath),
                packageName |-> Str(handler.arguments.name),
                dependencyType |-> Str(handler.arguments.type)]

\* the selection made in the directory dialog yields no path
NoPathSelected(o) ==
    \/ o.cancelled
    \/ o.uris = <<>>
    \/ o.uris[1].kind # "string"
    \/ o.uris[1].message = ""

HandlerSettled == handler.pc = "done"

\* C22: the handler hands a record to saveLinkedPackage if and only if
\* npmLink returned success=true; the record's packageName is the name of
\* the command argument and its localPath is the path passed to npmLink;
\* after success=false the result's message is shown as an error and
\* nothing is saved.
C22_SavedIffLinked ==
    /\ Len(handler.saveCalls) <= 1
    /\ handler.saveCalls # <<>>
       <=> /\ handler.linked # <<>>
           /\ ~handler.linked[1].threw
           /\ handler.linked[1].result.success
    /\ handler.saveCalls # <<>> =>
          /\ Len(handler.npmLinkCalls) = 1
          /\ handler.saveCalls[1].packageName = handler.arguments.name
          /\ Str(handler.saveCalls[1].localPath) = handler.npmLinkCalls[1][1]
    /\ (/\ handler.linked # <<>>
        /\ ~handler.linked[1].threw
        /\ ~handler.linked[1].result.success)
       => /\ handler.saveCalls = <<>>
          /\ handler.errorMessages = <<handler.linked[1].result.message>>
          /\ handler.informationMessages = <<>>
          /\ HandlerSettled

\* the saved path was used, the link succeeded and the record was saved
C22_Witness ==
    /\ HandlerSettled
    /\ handler.npmLinkCalls = <<<<Str("/saved"), Str("/ws"), Str("foo")>>>>
    /\ handler.saveCalls
         = <<[linkedAt |-> "2025-03-30T11:00:00.000Z", localPath |-> "/saved",
              packageName |-> "foo"]>>
    /\ handler.informationMessages = <<"Package linked successfully">>

\* C23: the handler never calls npmLink and never saves when the quick
\* pick is dismissed, when the directory dialog is dismissed or yields no
\* path, when no workspace folder is open or when the path of the first
\* folder cannot be determined; in the last two cases it shows
\* "No workspace folder is open" and "Could not determine workspace path".
C23_NoLinkWithoutPathAndProject ==
    LET quiet == /\ handler.npmLinkCalls = <<>>
                 /\ handler.saveCalls = <<>>
                 /\ handler.informationMessages = <<>>
    IN  /\ (handler.choices # <<>> /\ ~handler.choices[1].picked) =>
              quiet /\ handler.errorMessages = <<>> /\ HandlerSettled
        /\ (handler.dialogs # <<>> /\ NoPathSelected(handler.dialogs[1])) =>
              quiet /\ handler.errorMessages = <<>> /\ HandlerSettled
        /\ (/\ handler.workspaces # <<>>
            /\ \/ ~handler.workspaces[1].defined
               \/ handler.workspaces[1].folders = <<>>) =>
              /\ quiet
              /\ handler.errorMessages = <<"No workspace folder is open">>
        /\ (/\ handler.workspaces # <<>>
            /\ handler.workspaces[1].defined
            /\ handler.workspaces[1].folders # <<>>
            /\ handler.workspaces[1].folders[1].kind # "string") =>
              /\ quiet
              /\ handler.errorMessages
                   = <<"Could not determine workspace path">>
        /\ handler.npmLinkCalls # <<>> =>
              /\ handler.packagePath # ""
              /\ handler.projectPath # ""

\* a directory was chosen while no workspace folder was open
C23_Witness ==
    /\ HandlerSettled
    /\ handler.dialogs = <<[cancelled |-> FALSE, uris |-> <<Str("/new")>>]>>
    /\ handler.workspaces = <<[defined |-> FALSE, folders |-> <<>>]>>
    /\ handler.errorMessages = <<"No workspace folder is open">>
    /\ handler.npmLinkCalls = <<>>

\* C30: when npmLink rejects, or saveLinkedPackage rejects after a
\* successful link, the handler shows exactly one error message, "Error
\* linking package: <message>" or "Error saving package link: <message>",
\* for Error and other rejection values alike, shows no success
\* notification and completes without rejecting.
C30_RejectionsReported ==
    /\ handler.pc # "rejected"
    /\ (handler.linked # <<>> /\ handler.linked[1].threw) =>
          /\ handler.errorMessages
               = <<"Error linking package: " \o handler.linked[1].val.message>>
          /\ handler.informationMessages = <<>>
          /\ handler.saveCalls = <<>>
          /\ HandlerSettled
    /\ (handler.saved # <<>> /\ handler.saved[1].threw) =>
          /\ handler.errorMessages
               = <<"Error saving package link: "
                   \o handler.saved[1].val.message>>
          /\ handler.informationMessages = <<>>
          /\ HandlerSettled

\* saveLinkedPackage rejected with a string after a successful link
C30_Witness ==
    /\ HandlerSettled
    /\ handler.linked # <<>>
    /\ handler.linked[1].result.success
    /\ handler.saved = <<Throw(Str("Save error"))>>
    /\ handler.errorMessages = <<"Error saving package link: Save error">>

(***************************************************************************)
(* Further properties of the command selector                              *)
(***************************************************************************)
BunTwins == {<<"bun", "prod">>, <<"bun", "optional">>}

\* C24: for every (manager, canonical type) pair the add command is not
\* empty, and for one path it differs from the add command of every other
\* pair, except that bun's prod and optional commands are equal.
C24_AddCommandsDistinct ==
    (/\ cmdOut.fn = "getAddCommand"
     /\ cmdIn.manager \in KnownManagers
     /\ cmdIn.dependencyType \in {Str(t) : t \in CanonicalTypes})
    => LET mine == <<cmdIn.manager, cmdIn.dependencyType.message>>
           command == cmdOut.out.val.message
       IN  /\ ~cmdOut.out.threw
           /\ Len(command) > Len(cmdIn.packagePath) + 1
           /\ \A m \in KnownManagers : \A t \in CanonicalTypes :
                 LET theirs == getAddCommand(m, cmdIn.packagePath, Str(t))
                 IN  /\ ~theirs.threw
                     /\ theirs.val.message = command
                        <=> \/ <<m, t>> = mine
                            \/ {<<m, t>>, mine} = BunTwins

\* bun's command for an optional dependency, the twin of its prod command
C24_Witness ==
    /\ cmdOut.fn = "getAddCommand"
    /\ cmdIn.manager = "bun"
    /\ cmdIn.dependencyType = Str("optional")
    /\ cmdIn.packagePath = "/pkg"
    /\ cmdOut.out = getAddCommand("bun", "/pkg", Str("prod"))
    /\ cmdOut.out = Return(Str("bun install /pkg"))

(***************************************************************************)
(* Further properties of npmLink                                           *)
(***************************************************************************)
\* the text up to the first space
firstToken(s) ==
    LET end == CHOOSE i \in 1..(Len(s) + 1) :
                   /\ i = Len(s) + 1 \/ SubSeq(s, i, i) = " "
                   /\ \A j \in 1..(i - 1) : SubSeq(s, j, j) # " "
    IN  SubSeq(s, 1, end - 1)

\* C25: for every detector output the first token of the link command is
\* the invocation name of the manager (npm for a missing or unrecognized
\* name), and when the fallback runs the first token of the add command is
\* the same name.
C25_SameManagerToken ==
    /\ cmds # <<>> =>
          /\ Len(detections) = 1
          /\ firstToken(cmds[1].command) = SpecManager(detections[1])
          /\ firstToken(cmds[1].command) \in KnownManagers
    /\ Len(cmds) = 2 =>
          firstToken(cmds[2].command) = firstToken(cmds[1].command)
    /\ (LinkSettled /\ WorkspaceFailure(execs[1])) => Len(cmds) = 2

\* the detector named a manager the tables do not know; both commands
\* address npm
C25_Witness ==
    /\ Len(cmds) = 2
    /\ detections[1].name = Str("deno")
    /\ firstToken(cmds[1].command) = "npm"
    /\ firstToken(cmds[2].command) = "npm"

\* the steps of an invocation, in the order of the code
StepRank ==
    [idle |-> 0, statPackagePath |-> 1, statPackageJson |-> 2,
     readPackageJson |-> 3, detect |-> 4, link |-> 5, add |-> 6,
     returned |-> 7, rejected |-> 7, hung |-> 7]

InFlight == StepRank[pc] \in 1..6

\* C26: if every filesystem read, the detector call and each command
\* execution eventually completes, an invocation eventually returns a
\* result: with the filesystem and the detector completing, an invocation
\* either returns or waits for ever for one command (the link command or the
\* fallback command); and every step of an invocation moves it forward in
\* the order validation, detection, linking, fallback, so it passes through
\* each of them at most once.
C26_Terminates ==
    /\ \/ InFlight ~> pc = "returned"
       \/ <>[](pc = "link")
       \/ <>[](pc = "add")
    /\ [][/\ InFlight => StepRank[pc'] > StepRank[pc]
          /\ ~InFlight => pc' \in {pc, "statPackagePath"}]_vars

\* the fallback command is awaited, the last step before the return
C26_Witness ==
    /\ pc = "add"
    /\ calls = 1
    /\ Len(stats) = 2 /\ Len(reads) = 1 /\ Len(detections) = 1
    /\ Len(execs) = 1

\* both variants have returned for the same request and the link command of
\* neither failed with a workspace error
BothReturned ==
    /\ SimpleRuns
    /\ simple.pc = "returned"
    /\ Len(execs) >= 1 => ~WorkspaceFailure(execs[1])
    /\ \A i \in 1..Len(simple.execs) : ~WorkspaceFailure(simple.execs[i])

SameCommandsAndFlag ==
    /\ simple.cmds = cmds
    /\ simple.result.success = result.success

\* the manifest was not read, or it parses to an object with the name asked
ManifestAccepted ==
    \A i \in 1..Len(reads) :
        validatePackageManifest(reads[i], req.packagePath, req.packageName)
            = NoResult

\* C27 as stated: whenever the link command does not fail with a workspace
\* error, the simple npmLink and the fallback-capable npmLink issue the same
\* commands and return the same success flag.
C27_SimpleIsSubset == BothReturned => SameCommandsAndFlag

\* C27: whenever the manifest, if it is read, parses to an object whose name
\* is the package name asked for, and the link command does not fail with a
\* workspace error, the simple npmLink and the fallback-capable npmLink
\* issue the same commands and return the same success flag.
C27_SimpleIsSubsetWhenManifestAccepted ==
    (BothReturned /\ ManifestAccepted) => SameCommandsAndFlag

\* both variants ran the one link command of a detected yarn and succeeded
C27_Witness ==
    /\ BothReturned
    /\ validated = "passed"
    /\ Len(cmds) = 1
    /\ simple.cmds = cmds
    /\ cmds[1].command = "yarn link " \o req.packagePath
    /\ result.success /\ simple.result.success

\* the invocation has ended on a command whose callback reported an error
\* together with the captured output
EndedOnFailedCommand ==
    /\ pc = "returned"
    /\ Len(execs) >= 1
    /\ Len(execs) = Len(cmds)
    /\ ~execs[Len(execs)].threw
    /\ Truthy(execs[Len(execs)].error)

\* C28: when an invocation ends on a failed command execution with captured
\* stdout S and stderr E, the result is success=false with the message
\* "Failed to create link: Command execution failed: " + S + "\n" + E and a
\* defined error field, whether the error the execution reported is an Error
\* or another value.
C28_FailureMessage ==
    EndedOnFailedCommand
    => LET o == execs[Len(execs)]
       IN  /\ ~result.success
           /\ result.message
                = "Failed to create link: Command execution failed: "
                  \o o.stdout \o "\n" \o o.stderr
           /\ result.error # UNDEFINED
           /\ InstanceOfError(result.error)

\* the link command failed with a string for its error, nothing on stdout
\* and "stderr output" on stderr
C28_Witness ==
    /\ EndedOnFailedCommand
    /\ Len(execs) = 1
    /\ execs[1].error = Str("Command failed")
    /\ execs[1].stdout = ""
    /\ execs[1].stderr = "stderr output"
    /\ result.message
         = "Failed to create link: Command execution failed: \nstderr output"

\* the entries of a list whose name is not n, in their order
OtherEntries(linkedPackages, n) ==
    LET keep(package_) == package_.packageName # n
    IN  SelectSeq(linkedPackages, keep)

NameStored(linkedPackages, n) ==
    \E i \in 1..Len(linkedPackages) : linkedPackages[i].packageName = n

\* C29: a step of saveLinkedPackage(p) or removeLinkedPackage(n) concerns
\* one package name and leaves the entries of every other name unchanged and
\* in the same relative order; a save of a stored name puts p where the entry
\* of that name was, a save of a new name puts p at the end, a removal
\* leaves no entry of the name, and the removal of a name that is not stored
\* changes nothing.
C29_OtherEntriesKept ==
    [][\E n \in StoreNames :
          /\ \A m \in StoreNames \ {n} : lastSaved'[m] = lastSaved[m]
          /\ OtherEntries(stored', n) = OtherEntries(stored, n)
          /\ IF lastSaved'[n] # NoPackage
             THEN IF NameStored(stored, n)
                  THEN /\ Len(stored') = Len(stored)
                       /\ \A i \in 1..Len(stored) :
                             stored'[i] = IF stored[i].packageName = n
                                          THEN lastSaved'[n]
                                          ELSE stored[i]
                  ELSE stored' = Append(stored, lastSaved'[n])
             ELSE /\ ~NameStored(stored', n)
                  /\ ~NameStored(stored, n) => stored' = stored]_vars

\* three names are stored in the order of their first save, and the one in
\* the middle carries the values of a later save
C29_Witness ==
    /\ Len(stored) = 3
    /\ stored[1] = [packageName |-> "foo", localPath |-> "/a",
                    linkedAt |-> "2025-03-30T10:00:00.000Z"]
    /\ stored[2] = [packageName |-> "bar", localPath |-> "/b",
                    linkedAt |-> "2025-03-30T11:00:00.000Z"]
    /\ stored[3] = [packageName |-> "baz", localPath |-> "/a",
                    linkedAt |-> "2025-03-30T10:00:00.000Z"]

(***************************************************************************)
(* Properties of the logger                                                *)
(***************************************************************************)
LevelTag(method) ==
    CASE method = "info" -> "[INFO] "
      [] method = "warn" -> "[WARN] "
      [] method = "error" -> "[ERROR] "
      [] method = "debug" -> "[DEBUG] "
      [] OTHER -> ""

\* the calls that asked for a notification, in order
Notifying(loggerCalls) ==
    LET asked(call) == call.notify = "true"
    IN  SelectSeq(loggerCalls, asked)

\* C31: every call of info, warn, error, debug or log has appended exactly
\* one line, which ends with the level tag of the method ([INFO], [WARN],
\* [ERROR], [DEBUG], none for log) followed by the message; and the
\* notifications shown are exactly those of the calls made with notify true,
\* each at the level of its method (none for debug and log).
C31_OneLinePerCall ==
    /\ Len(channel.lines) = Len(channel.calls)
    /\ \A i \in 1..Len(channel.calls) :
          LET call == channel.calls[i]
          IN  call.method # "init" =>
                  \E date \in LogDates :
                      channel.lines[i].text
                        = date \o ": " \o LevelTag(call.method)
                          \o call.message
    /\ Len(channel.notifications) = Len(Notifying(channel.calls))
    /\ \A i \in 1..Len(channel.notifications) :
          /\ channel.notifications[i].level = Notifying(channel.calls)[i].method
          /\ channel.notifications[i].message
               = Notifying(channel.calls)[i].message
          /\ channel.notifications[i].level \in {"info", "warn", "error"}

\* a warning with a notification was followed by a debug line without one
C31_Witness ==
    /\ Len(channel.calls) = 2
    /\ channel.calls[1] = LoggerCalled("warn", "x", "true")
    /\ channel.calls[2].method = "debug"
    /\ channel.lines[1].text = "3/30/2025, 10:00:00: [WARN] x"
    /\ channel.lines[2].text = "3/30/2025, 10:00:00: [DEBUG] Test info message"
    /\ channel.notifications = <<[level |-> "warn", message |-> "x"]>>

\* C32 (refuted by the code): the output channel that logger.init() creates
\* has the name "Linkify".
C32_ChannelNamedLinkify ==
    (Len(channel.calls) >= 1 /\ channel.calls[1].method = "init")
    => channel.created = <<"Linkify">>

\* C35: over any sequence of logger calls the output channel is created at
\* most once, by the first call whichever method it is, and the line of
\* every call is appended to that one channel.
C35_OneChannel ==
    /\ Len(channel.created) <= 1
    /\ Len(channel.created) = 1 <=> Len(channel.calls) >= 1
    /\ channel.outputChannel = Len(channel.created)
    /\ \A i \in 1..Len(channel.lines) : channel.lines[i].channel = 1

\* the first call was debug, the second init, and one channel holds both
\* lines
C35_Witness ==
    /\ Len(channel.calls) = 2
    /\ channel.calls[1].method = "debug"
    /\ channel.calls[2].method = "init"
    /\ Len(channel.created) = 1
    /\ channel.lines[2] = [channel |-> 1,
                           text |-> "3/30/2025, 10:00:00: Package Linker initialized"]

(***************************************************************************)
(* Properties of getDependencyAtPosition                                   *)
(***************************************************************************)
HoverReturned == hover.pc = "returned"

\* the hovered entry, when the position is on an entry of a dependency
\* section of a package.json that could be read
OnDependencyEntry ==
    /\ HoverReturned
    /\ basename(hover.document.fileName) = "package.json"
    /\ hover.document.read = "ok"
    /\ hover.position.entry >= 1
    /\ \E k \in 1..Len(dependencyTypes) :
          hover.document.sections[hover.position.section].type
            = dependencyTypes[k]

HoveredSection == hover.document.sections[hover.position.section]
HoveredEntry == HoveredSection.entries[hover.position.entry]

\* C33 (refuted by the code): a returned dependency is the entry under the
\* position, with the name of that entry and the type of the section that
\* holds it, also when the name occurs in several sections or the sections
\* are in another order than that of dependencyTypes; and hovering an entry
\* of a dependency section returns that entry, not null.
C33_HoveredEntryReturned ==
    /\ (HoverReturned /\ hover.result # NoDependency)
       => /\ hover.position.entry >= 1
          /\ HoveredEntry.name = hover.result.name
          /\ HoveredSection.type = hover.result.type
    /\ OnDependencyEntry
       => hover.result = [name |-> HoveredEntry.name,
                          version |-> HoveredEntry.version,
                          type |-> HoveredSection.type]

(***************************************************************************)
(* Properties of overlapping saveLinkedPackage calls                       *)
(***************************************************************************)
\* the saves of a and b were waiting at the same time and both have returned
SavedTogether(a, b) ==
    /\ a # b
    /\ b \in pending.during[a]
    /\ a \in pending.during[b]
    /\ \A i \in 1..Len(pending.updates) :
          pending.updates[i].packageName \notin {a, b}

\* C34: when two saveLinkedPackage calls for different package names were
\* waiting for their storage update at the same time and both have
\* returned, storage holds the entry of each of them as it was saved.
C34_NoLostUpdate ==
    \A a, b \in StoreNames :
        SavedTogether(a, b)
        => /\ getLinkedPackage(a) = lastSaved[a]
           /\ getLinkedPackage(b) = lastSaved[b]
           /\ lastSaved[a] # NoPackage
           /\ lastSaved[b] # NoPackage

\* foo and bar were saved together, bar's update resolved first, and
\* nothing is waiting
C34_Witness ==
    /\ SavedTogether("foo", "bar")
    /\ pending.updates = <<>>
    /\ Len(stored) = 2
    /\ stored[1].packageName = "foo"
    /\ stored[2].packageName = "bar"

====
